---- MODULE Spec2Model ----
(***************************************************************************)
(* The renderer of grafana-react: the walk of processElement over a tree   *)
(* of rows, containers, defaults scopes and panels, the layout cursor of   *)
(* the RenderContext and the defaults stack.                               *)
(*                                                                         *)
(* The input tree is produced in document order, one node event at a time: *)
(* entering a scope node pushes a frame on `scopes`, leaving it pops the   *)
(* frame, so every behaviour is the visit of one tree and every tree       *)
(* within the bounds is visited by some behaviour.                         *)
(*                                                                         *)
(* A JS object is a function whose domain holds the keys that are set; an  *)
(* absent key stands for `undefined`, Null for `null`.                     *)
(***************************************************************************)
EXTENDS Integers, Sequences, FiniteSets, TLC

VARIABLES
    status,           \* "render" (render called, root not yet accepted) | "running" |
                      \* "done" (render returned) | "error" (render threw)
    error,            \* the Error thrown, NoError while none
    element,          \* the element processElement was last called with
    visited,          \* the number of elements processElement was called with
    renderOptions,    \* render's options argument
    dashboardProps,   \* the props of the root Dashboard element
    panelId,          \* ctx.panelId
    currentX,         \* ctx.currentX
    currentY,         \* ctx.currentY
    rowMaxY,          \* ctx.rowMaxY
    rowPaddingLeft,   \* ctx.rowPaddingLeft
    rowPaddingRight,  \* ctx.rowPaddingRight
    panels,           \* ctx.panels
    defaultsStack,    \* ctx.defaultsStack
    scopes,           \* the open processElement calls of scope nodes, innermost last
    variables,        \* ctx.variables
    annotations,      \* ctx.annotations
    links,            \* ctx.links
    dashboard,        \* the dashboard render returned last, NoDashboard before
    heap,             \* the objects the props of the tree's nodes refer to
    input,            \* the argument a function of utils is called with
    output            \* what the calls of that function returned, in order

vars == <<status, error, element, visited, renderOptions, dashboardProps, panelId,
          currentX, currentY, rowMaxY, rowPaddingLeft, rowPaddingRight,
          panels, defaultsStack, scopes, variables, annotations, links, dashboard,
          heap, input, output>>

accumulators == <<variables, annotations, links>>

calls == <<input, output>>

cursor == <<currentX, currentY, rowMaxY, rowPaddingLeft, rowPaddingRight>>

----------------------------------------------------------------------------
(* Bounds of the model *)

\* elements processElement is called with in one walk
MaxNodes == 3
\* scope nodes open at once in the layout walk
MaxDepth == 2
\* entries (global and per-panel-type) one defaults layer sets
MaxLayerKeys == 2
\* defaults scopes open at once when a panel's defaults are resolved
MaxStack == 2
\* function components wrapped around the root element
MaxWrap == 2

----------------------------------------------------------------------------
(* Program constants *)

GridWidth == 24
DefaultWidth == 12
DefaultHeight == 8
RowHeight == 1

Null == "null"
Undefined == "undefined"

\* a maximum that is its first argument
MaxOfFirst(a, b) == a

Max(a, b) == IF a >= b THEN a ELSE b

\* the empty object {}
EmptyObject == [k \in {} |-> Null]

\* obj.k ?? d, for a key that is absent or holds a number
OrElse(obj, k, d) == IF k \in DOMAIN obj THEN obj[k] ELSE d

\* obj.k ?? d, for a key that is absent, null or holds a string
Coalesce(obj, k, d) == IF k \in DOMAIN obj /\ obj[k] # Null THEN obj[k] ELSE d

----------------------------------------------------------------------------
(* Defaults stack *)

DefaultKeys == {"colorMode", "fill"}
PanelTypes == {"stat", "timeseries"}

RECURSIVE MergeGlobalDefaults(_, _)
\* the first loop of getCurrentDefaults over the stack, from index i on
MergeGlobalDefaults(stack, i) ==
    IF i = 0 THEN EmptyObject
    ELSE LET merged == MergeGlobalDefaults(stack, i - 1)
             keys == DOMAIN stack[i] \ {"panels"}
         IN [k \in DOMAIN merged \cup keys |->
                IF k \in keys THEN stack[i][k] ELSE merged[k]]

\* the per-panel-type overrides of one layer ({} when it has none)
PanelOverrides(defaults, panelType) ==
    IF "panels" \in DOMAIN defaults /\ panelType \in DOMAIN defaults["panels"]
    THEN defaults["panels"][panelType]
    ELSE EmptyObject

RECURSIVE ApplyPanelOverridesKeepsNull(_, _, _, _)
\* per-panel-type overrides that store a null instead of deleting the key
ApplyPanelOverridesKeepsNull(globals, stack, panelType, i) ==
    IF i = 0 THEN globals
    ELSE LET merged == ApplyPanelOverridesKeepsNull(globals, stack, panelType, i - 1)
             over == PanelOverrides(stack[i], panelType)
         IN [k \in DOMAIN merged \cup DOMAIN over |->
                IF k \in DOMAIN over THEN over[k] ELSE merged[k]]

RECURSIVE ApplyPanelOverrides(_, _, _, _)
\* the second loop of getCurrentDefaults: null deletes the key, a value sets it
ApplyPanelOverrides(globals, stack, panelType, i) ==
    IF i = 0 THEN globals
    ELSE LET merged == ApplyPanelOverrides(globals, stack, panelType, i - 1)
             over == PanelOverrides(stack[i], panelType)
             deleted == {k \in DOMAIN over : over[k] = Null}
             set == DOMAIN over \ deleted
         IN [k \in (DOMAIN merged \cup set) \ deleted |->
                IF k \in set THEN over[k] ELSE merged[k]]

RECURSIVE MergeByLayer(_, _, _)
\* a resolution that applies each layer's global keys and then that layer's
\* per-panel-type overrides, layer by layer
MergeByLayer(stack, panelType, i) ==
    IF i = 0 THEN EmptyObject
    ELSE LET merged == MergeByLayer(stack, panelType, i - 1)
             keys == DOMAIN stack[i] \ {"panels"}
             globals == [k \in DOMAIN merged \cup keys |->
                            IF k \in keys THEN stack[i][k] ELSE merged[k]]
             over == PanelOverrides(stack[i], panelType)
             deleted == {k \in DOMAIN over : over[k] = Null}
             set == DOMAIN over \ deleted
         IN [k \in (DOMAIN globals \cup set) \ deleted |->
                IF k \in set THEN over[k] ELSE globals[k]]

getCurrentDefaultsByLayer(stack, panelType) == MergeByLayer(stack, panelType, Len(stack))

getCurrentDefaults(stack, panelType) ==
    ApplyPanelOverrides(MergeGlobalDefaults(stack, Len(stack)),
                        stack, panelType, Len(stack))

\* a merge in which the external defaults override the dashboard's
MergedDefaultsExternalWins(options, props) ==
    IF "defaults" \in DOMAIN props \/ "defaults" \in DOMAIN options
    THEN LET o == IF "defaults" \in DOMAIN options THEN options["defaults"] ELSE EmptyObject
             d == IF "defaults" \in DOMAIN props THEN props["defaults"] ELSE EmptyObject
         IN <<[k \in DOMAIN o \cup DOMAIN d |-> IF k \in DOMAIN o THEN o[k] ELSE d[k]]>>
    ELSE <<>>

\* { ...options?.defaults, ...props.defaults }, undefined when both are
MergedDefaults(options, props) ==
    IF "defaults" \in DOMAIN props \/ "defaults" \in DOMAIN options
    THEN LET o == IF "defaults" \in DOMAIN options THEN options["defaults"] ELSE EmptyObject
             d == IF "defaults" \in DOMAIN props THEN props["defaults"] ELSE EmptyObject
         IN <<[k \in DOMAIN o \cup DOMAIN d |-> IF k \in DOMAIN d THEN d[k] ELSE o[k]]>>
    ELSE <<>>

----------------------------------------------------------------------------
(* Panel builders *)

\* a wrap that goes below the last line's start by the panel's own height
PlacePanelLastOnly(props, cx, cy, maxY, padLeft, padRight) ==
    LET width == OrElse(props, "width", DefaultWidth)
        height == OrElse(props, "height", DefaultHeight)
        marginLeft == OrElse(props, "marginLeft", 0)
        wrap == (cx - padLeft) + marginLeft + width > GridWidth - padLeft - padRight
        x0 == IF wrap THEN padLeft ELSE cx
        y0 == IF wrap THEN cy + height ELSE cy
    IN [wrap |-> wrap, x0 |-> x0, y0 |-> y0,
        gridPos |-> [x |-> x0 + marginLeft, y |-> y0, w |-> width, h |-> height]]

\* the rectangle buildBasePanel computes from the cursor: wrap, then margin
PlacePanel(props, cx, cy, maxY, padLeft, padRight) ==
    LET width == OrElse(props, "width", DefaultWidth)
        height == OrElse(props, "height", DefaultHeight)
        marginLeft == OrElse(props, "marginLeft", 0)
        availableWidth == GridWidth - padLeft - padRight
        effectiveX == cx - padLeft
        wrap == effectiveX + marginLeft + width > availableWidth
        x0 == IF wrap THEN padLeft ELSE cx
        y0 == IF wrap THEN maxY ELSE cy
    IN [wrap |-> wrap, x0 |-> x0, y0 |-> y0,
        gridPos |-> [x |-> x0 + marginLeft, y |-> y0, w |-> width, h |-> height]]

\* fieldConfig.defaults.color.mode and custom.fillOpacity of a timeseries panel
TimeseriesConfig(props, defaults) ==
    [colorMode |-> Coalesce(props, "colorMode",
                            Coalesce(defaults, "colorMode", "palette-classic")),
     fillOpacity |-> IF "fill" \in DOMAIN props /\ props["fill"] # Null
                     THEN props["fill"]
                     ELSE IF "fill" \in DOMAIN defaults THEN defaults["fill"]
                     ELSE Undefined]

\* fieldConfig.defaults.color.mode of a stat panel
StatConfig(props, defaults) ==
    LET useFixedColor == "baseColor" \in DOMAIN props /\ "thresholds" \notin DOMAIN props
    IN [colorMode |-> IF useFixedColor THEN "fixed"
                      ELSE Coalesce(defaults, "colorMode", "thresholds"),
        fillOpacity |-> Undefined]

BuildConfig(type, props, stack) ==
    IF type = "timeseries"
    THEN TimeseriesConfig(props, getCurrentDefaults(stack, "timeseries"))
    ELSE StatConfig(props, getCurrentDefaults(stack, "stat"))

\* deepMerge(panel, extend), for an extend that holds id and gridPos keys:
\* gridPos is a plain object on both sides and is merged key by key,
\* id is replaced
deepMergePanel(panel, extend) ==
    [panel EXCEPT
        !.id = IF "id" \in DOMAIN extend THEN extend["id"] ELSE @,
        !.gridPos = IF "gridPos" \in DOMAIN extend
                    THEN [k \in DOMAIN @ |->
                            IF k \in DOMAIN extend["gridPos"]
                            THEN extend["gridPos"][k] ELSE @[k]]
                    ELSE @]

\* a panel pushed as built
ApplyExtendNever(panel, props) == panel

\* addPanel: the extend prop, if any, merged into the panel
ApplyExtend(panel, props) ==
    IF "extend" \in DOMAIN props THEN deepMergePanel(panel, props["extend"]) ELSE panel

----------------------------------------------------------------------------
(* Inputs *)

NoError == [type |-> "none"]
NoDashboard == EmptyObject
NoObjects == [o \in {} |-> EmptyObject]
NoInput == EmptyObject
NoElement == [type |-> "dashboard"]

\* the objects with some of the keys of `full` set
SubObjects(full) ==
    {[k \in d |-> full[k]] : d \in SUBSET DOMAIN full}

ExtendSet == {[id |-> 9], [gridPos |-> [x |-> 3, h |-> 2]]}

\* panels of the layout walk: width, height, marginLeft and extend are optional
LayoutPanelProps ==
    {w @@ r : w \in {EmptyObject, [width |-> 6], [width |-> 18]},
              r \in SubObjects([height |-> 4, marginLeft |-> 8])}
        \cup {[extend |-> x] : x \in ExtendSet}

LayoutPanels == {[type |-> "timeseries", props |-> p] : p \in LayoutPanelProps}

RowProps == {EmptyObject, [padding |-> 2], [padding |-> 2, paddingLeft |-> 4]}

ContainerProps == SubObjects([width |-> 12, fill |-> TRUE])

LayoutScopeDefaults == {[colorMode |-> "A", fill |-> "A"], [fill |-> "B"]}

LayoutRenders == {[options |-> EmptyObject, props |-> EmptyObject],
                  [options |-> EmptyObject, props |-> [defaults |-> [colorMode |-> "D"]]]}

\* The layers of the runs that resolve defaults set one key k. Every layer
\* carries a value of its own, so that the resolved value tells the layer it
\* came from: "E" the external defaults, "D" the dashboard's, ScopeValues[i]
\* the i-th open defaults scope, "P" the panel's explicit property.
ScopeValues == <<"S1", "S2", "S3", "S4">>

\* the layers a Defaults element can carry for key k (DefaultsProps)
KeyLayers(k, v) == {EmptyObject, [x \in {k} |-> v], [x \in {k} |-> Null]}

\* the `panels` maps for key k: some panel types with a value or null
PanelsMaps(k, v) ==
    UNION {[T -> {[x \in {k} |-> v], [x \in {k} |-> Null]}] : T \in SUBSET PanelTypes}

\* the number of entries a layer sets
LayerEntries(l) ==
    Cardinality(DOMAIN l \ {"panels"})
        + (IF "panels" \in DOMAIN l THEN Cardinality(DOMAIN l["panels"]) ELSE 0)

\* the layers with per-panel-type overrides for key k (ExtendedPanelDefaults)
ExtendedLayers(k, v) ==
    {l \in KeyLayers(k, v)
            \cup {g @@ [panels |-> pm] : g \in KeyLayers(k, v), pm \in PanelsMaps(k, v)} :
        LayerEntries(l) <= MaxLayerKeys}

\* an object that has `defaults` or not
WithDefaults(layers) == {EmptyObject} \cup {[defaults |-> l] : l \in layers}

ResolvePanels ==
    {[type |-> "timeseries", props |-> p] :
        p \in {EmptyObject, [colorMode |-> "P"], [fill |-> "P"]}}
    \cup {[type |-> "stat", props |-> p] :
        p \in {EmptyObject, [baseColor |-> "red"],
               [baseColor |-> "red", thresholds |-> "T"]}}

----------------------------------------------------------------------------
(* The walk *)

Frame(kind, defaults) ==
    [kind |-> kind, defaults |-> defaults, containerX |-> 0, containerY |-> 0, containerWidth |-> 0,
     panelCountBefore |-> 0, savedCurrentX |-> 0, savedCurrentY |-> 0,
     savedRowMaxY |-> 0, savedRowPaddingLeft |-> 0, savedRowPaddingRight |-> 0]

\* createContext, but for the defaults stack
createContext ==
    /\ status = "running"
    /\ error = NoError
    /\ panelId = 1
    /\ currentX = 0
    /\ currentY = 0
    /\ rowMaxY = 0
    /\ rowPaddingLeft = 0
    /\ rowPaddingRight = 0
    /\ panels = <<>>
    /\ variables = <<>>
    /\ annotations = <<>>
    /\ links = <<>>

\* render up to the loop over the root's children
InitWith(renders) ==
    /\ \E r \in renders :
        /\ renderOptions = r.options
        /\ dashboardProps = r.props
        /\ defaultsStack = MergedDefaults(r.options, r.props)
    /\ createContext
    /\ element = NoElement
    /\ visited = 0
    /\ scopes = <<>>
    /\ dashboard = NoDashboard
    /\ heap = NoObjects
    /\ input = NoInput
    /\ output = <<>>

\* an id counter that rows do not advance past
NextPanelIdStuck(id) == IF id = 1 THEN 1 ELSE id + 1

\* ctx.panelId++
NextPanelId(id) == id + 1

\* processElement is called with element e
Visit(e) ==
    /\ visited < MaxNodes
    /\ visited' = visited + 1
    /\ element' = e

\* an advance to the width of the record, not to its right edge
updatePositionToWidth(panel) ==
    /\ currentX' = panel.gridPos.w
    /\ rowMaxY' = Max(rowMaxY, panel.gridPos.y + panel.gridPos.h)

\* an advance that sets rowMaxY to the bottom of the record
updatePositionToBottom(panel) ==
    /\ currentX' = panel.gridPos.x + panel.gridPos.w
    /\ rowMaxY' = panel.gridPos.y + panel.gridPos.h

\* updatePosition
updatePosition(panel) ==
    /\ currentX' = panel.gridPos.x + panel.gridPos.w
    /\ rowMaxY' = Max(rowMaxY, panel.gridPos.y + panel.gridPos.h)

\* processElement, case of a visual panel: build<Type>Panel, then addPanel
VisitPanel(elements) ==
    \E e \in elements :
        LET place == PlacePanel(e.props, currentX, currentY, rowMaxY,
                                rowPaddingLeft, rowPaddingRight)
            built == [id |-> panelId, type |-> e.type, gridPos |-> place.gridPos,
                      config |-> BuildConfig(e.type, e.props, defaultsStack)]
            panel == ApplyExtend(built, e.props)
        IN /\ status = "running"
           /\ Visit(e)
           /\ panelId' = NextPanelId(panelId)
           /\ currentY' = place.y0
           /\ panels' = Append(panels, panel)
           /\ updatePosition(panel)
           /\ UNCHANGED <<status, error, renderOptions, dashboardProps,
                          rowPaddingLeft, rowPaddingRight, defaultsStack, scopes,
                   accumulators, dashboard, heap, calls>>

\* a row record one line below the line reached
buildRowPanelBelow(id, y) ==
    [id |-> id, type |-> "row", gridPos |-> [x |-> 0, y |-> y + 1, w |-> GridWidth, h |-> RowHeight],
     config |-> [colorMode |-> Undefined, fillOpacity |-> Undefined]]

\* buildRowPanel
buildRowPanel(id, y) ==
    [id |-> id, type |-> "row", gridPos |-> [x |-> 0, y |-> y, w |-> GridWidth, h |-> RowHeight],
     config |-> [colorMode |-> Undefined, fillOpacity |-> Undefined]]

\* processElement, case 'row', up to the loop over the children
RowEnter(rows) ==
    \E p \in rows :
        LET paddingLeft == OrElse(p, "paddingLeft", OrElse(p, "padding", 0))
            paddingRight == OrElse(p, "paddingRight", OrElse(p, "padding", 0))
        IN /\ status = "running"
           /\ Len(scopes) < MaxDepth
           /\ Visit([type |-> "row", props |-> p])
           /\ panels' = Append(panels, buildRowPanel(panelId, rowMaxY))
           /\ panelId' = NextPanelId(panelId)
           /\ currentY' = rowMaxY + 1
           /\ rowMaxY' = rowMaxY + 1
           /\ rowPaddingLeft' = paddingLeft
           /\ rowPaddingRight' = paddingRight
           /\ currentX' = paddingLeft
           \* the frame remembers where rowPanel is in the list
           /\ scopes' = Append(scopes, [Frame("row", EmptyObject) EXCEPT
                                            !.panelCountBefore = Len(panels)])
           /\ UNCHANGED <<status, error, renderOptions, dashboardProps, defaultsStack,
                   accumulators, dashboard, heap, calls>>

\* a row exit that keeps the row's padding
RowExitCursorKeepsPadding ==
    /\ currentY' = rowMaxY
    /\ currentX' = 0
    /\ UNCHANGED <<rowMaxY, rowPaddingLeft, rowPaddingRight, heap, calls>>

\* the cursor after a row's children
RowExitCursor ==
    /\ currentY' = rowMaxY
    /\ currentX' = 0
    /\ rowPaddingLeft' = 0
    /\ rowPaddingRight' = 0
    /\ UNCHANGED rowMaxY

\* processElement, case 'row', after the loop over the children
RowExit ==
    /\ status = "running"
    /\ scopes # <<>>
    /\ scopes[Len(scopes)].kind = "row"
    /\ RowExitCursor
    /\ scopes' = SubSeq(scopes, 1, Len(scopes) - 1)
    /\ UNCHANGED <<status, error, element, visited, renderOptions, dashboardProps, panelId,
                   panels, defaultsStack,
                   accumulators, dashboard, heap, calls>>

\* processElement, case 'container', up to the loop over the children
ContainerEnter(containers) ==
    \E p \in containers :
        /\ status = "running"
        /\ Len(scopes) < MaxDepth
        /\ Visit([type |-> "container", props |-> p])
        /\ IF "fill" \in DOMAIN p \/ "width" \in DOMAIN p
           THEN LET containerWidth ==
                        IF "fill" \in DOMAIN p
                        THEN (GridWidth - rowPaddingRight) - currentX
                        ELSE p["width"]
                IN /\ scopes' = Append(scopes,
                        [kind |-> "container", defaults |-> EmptyObject,
                         containerX |-> currentX, containerY |-> currentY,
                         containerWidth |-> containerWidth,
                         panelCountBefore |-> Len(panels),
                         savedCurrentX |-> currentX, savedCurrentY |-> currentY,
                         savedRowMaxY |-> rowMaxY,
                         savedRowPaddingLeft |-> rowPaddingLeft,
                         savedRowPaddingRight |-> rowPaddingRight])
                   /\ currentX' = 0
                   /\ currentY' = 0
                   /\ rowMaxY' = 0
                   /\ rowPaddingLeft' = 0
                   /\ rowPaddingRight' = GridWidth - containerWidth
                   /\ UNCHANGED <<status, error, heap, calls>>
           ELSE /\ status' = "error"
                /\ error' = [type |-> "Container must have either width or fill prop"]
                /\ UNCHANGED <<cursor, scopes, heap, calls>>
        /\ UNCHANGED <<renderOptions, dashboardProps, panelId, panels, defaultsStack,
                   accumulators, dashboard, heap, calls>>

\* every record up to index `upTo` moved by (dx, dy)
TranslateFromFirst(ps, from, upTo, dx, dy) ==
    [i \in 1..Len(ps) |->
        IF i <= upTo
        THEN [ps[i] EXCEPT !.gridPos.x = @ + dx, !.gridPos.y = @ + dy]
        ELSE ps[i]]

\* the records from index `from` on, moved by (dx, dy), up to index `upTo`
Translate(ps, from, upTo, dx, dy) ==
    [i \in 1..Len(ps) |->
        IF i >= from /\ i <= upTo
        THEN [ps[i] EXCEPT !.gridPos.x = @ + dx, !.gridPos.y = @ + dy]
        ELSE ps[i]]

\* processElement, case 'container', after the loop over the children
ContainerExit ==
    /\ status = "running"
    /\ scopes # <<>>
    /\ scopes[Len(scopes)].kind = "container"
    /\ LET f == scopes[Len(scopes)]
           containerHeight == rowMaxY
           tooWide == {i \in (f.panelCountBefore + 1)..Len(panels) :
                          panels[i].gridPos.w > f.containerWidth}
       IN IF tooWide = {}
          THEN /\ panels' = Translate(panels, f.panelCountBefore + 1, Len(panels),
                                      f.containerX, f.containerY)
               /\ currentX' = f.savedCurrentX + f.containerWidth
               /\ currentY' = f.savedCurrentY
               /\ rowMaxY' = Max(f.savedRowMaxY, f.containerY + containerHeight)
               /\ rowPaddingLeft' = f.savedRowPaddingLeft
               /\ rowPaddingRight' = f.savedRowPaddingRight
               /\ scopes' = SubSeq(scopes, 1, Len(scopes) - 1)
               /\ UNCHANGED <<status, error, heap, calls>>
          ELSE LET first == CHOOSE i \in tooWide : \A j \in tooWide : i <= j
               IN /\ panels' = Translate(panels, f.panelCountBefore + 1, first - 1,
                                         f.containerX, f.containerY)
                  /\ status' = "error"
                  /\ error' = [type |-> "Panel exceeds container width",
                               panel |-> first,
                               width |-> panels[first].gridPos.w,
                               containerWidth |-> f.containerWidth]
                  /\ UNCHANGED <<cursor, scopes, heap, calls>>
    /\ UNCHANGED <<element, visited, renderOptions, dashboardProps, panelId, defaultsStack,
                   accumulators, dashboard, heap, calls>>

\* processElement, case 'defaults', up to the loop over the children
DefaultsEnter(layers) ==
    \E d \in layers :
        /\ status = "running"
        /\ Len(scopes) < MaxDepth
        /\ Visit([type |-> "defaults", props |-> d])
        /\ defaultsStack' = Append(defaultsStack, d)
        /\ scopes' = Append(scopes, Frame("defaults", d))
        /\ UNCHANGED <<status, error, renderOptions, dashboardProps, panelId,
                       cursor, panels,
                   accumulators, dashboard, heap, calls>>

\* a pop that leaves the layer on the stack
PopDefaultsKeeps(stack) == stack

\* a pop that empties the stack
PopDefaultsAll(stack) == <<>>

\* ctx.defaultsStack.pop()
PopDefaults(stack) == SubSeq(stack, 1, Len(stack) - 1)

\* processElement, case 'defaults', after the loop over the children
DefaultsExit ==
    /\ status = "running"
    /\ scopes # <<>>
    /\ scopes[Len(scopes)].kind = "defaults"
    /\ defaultsStack' = PopDefaults(defaultsStack)
    /\ scopes' = SubSeq(scopes, 1, Len(scopes) - 1)
    /\ UNCHANGED <<status, error, element, visited, renderOptions, dashboardProps, panelId,
                   cursor, panels,
                   accumulators, dashboard, heap, calls>>

\* a dashboard object that always carries the three lists
BuildDashboardAlways(ps, vs, as, ls) ==
    [panels |-> ps, templating |-> [list |-> vs], annotations |-> [list |-> as], links |-> ls]

\* the dashboard object: templating, annotations and links are set when the
\* context's list is not empty
BuildDashboard(ps, vs, as, ls) ==
    [panels |-> ps]
        @@ (IF Len(vs) > 0 THEN [templating |-> [list |-> vs]] ELSE EmptyObject)
        @@ (IF Len(as) > 0 THEN [annotations |-> [list |-> as]] ELSE EmptyObject)
        @@ (IF Len(ls) > 0 THEN [links |-> ls] ELSE EmptyObject)

\* render after the loop over the root's children: the dashboard is returned
RenderReturn ==
    /\ status = "running"
    /\ scopes = <<>>
    /\ status' = "done"
    /\ dashboard' = BuildDashboard(panels, variables, annotations, links)
    /\ UNCHANGED <<error, element, visited, renderOptions, dashboardProps, panelId,
                   cursor, panels, defaultsStack, scopes, accumulators, heap, calls>>

----------------------------------------------------------------------------
(* The layout walk: rows, containers, defaults scopes and panels *)

Init == InitWith(LayoutRenders)

Next ==
    \/ VisitPanel(LayoutPanels)
    \/ RowEnter(RowProps)
    \/ RowExit
    \/ ContainerEnter(ContainerProps)
    \/ ContainerExit
    \/ DefaultsEnter(LayoutScopeDefaults)
    \/ DefaultsExit
    \/ RenderReturn

Spec == Init /\ [][Next]_vars

----------------------------------------------------------------------------
(* Resolving a panel's defaults: the walk has entered up to MaxStack nested  *)
(* defaults scopes under a dashboard with dashboard-level and external       *)
(* defaults, and visits one panel.                                           *)

InitResolve ==
    \E k \in DefaultKeys, n \in 0..MaxStack :
        \E o \in WithDefaults(ExtendedLayers(k, "E")),
           d \in WithDefaults(ExtendedLayers(k, "D")),
           s \in [1..n -> UNION {KeyLayers(k, ScopeValues[i]) : i \in 1..n}] :
            /\ \A i \in 1..n : s[i] \in KeyLayers(k, ScopeValues[i])
            /\ renderOptions = o
            /\ dashboardProps = d
            /\ defaultsStack = MergedDefaults(o, d) \o s
            /\ scopes = [i \in 1..n |-> Frame("defaults", s[i])]
            /\ visited = n
            /\ element = IF n = 0 THEN NoElement
                          ELSE [type |-> "defaults", props |-> s[n]]
            /\ createContext
            /\ dashboard = NoDashboard
            /\ heap = NoObjects
            /\ input = NoInput
            /\ output = <<>>

ResolvePanel ==
    /\ panels = <<>>
    /\ VisitPanel(ResolvePanels)

NextResolve == ResolvePanel

SpecResolve == InitResolve /\ [][NextResolve]_vars

----------------------------------------------------------------------------
(* Variables, annotations and links among the panels and rows of a tree.   *)

\* hide is true ("true" stands for the boolean) or 'label'
VariableProps == {[name |-> "v1"], [name |-> "v2", hide |-> "true"],
                  [name |-> "v3", hide |-> "label"]}
AnnotationProps == {[name |-> "a1"], [name |-> "a2", color |-> "blue"]}
LinkProps == {[title |-> "l1", url |-> "u1"], [title |-> "l2", url |-> "u2", icon |-> "doc"]}

SidePanels == {[type |-> "timeseries", props |-> EmptyObject]}
SideRows == {[padding |-> 2]}

parseVariableHide(p) ==
    IF "hide" \notin DOMAIN p THEN 0
    ELSE IF p["hide"] = "true" THEN 2
    ELSE IF p["hide"] = "label" THEN 1
    ELSE 0

\* processElement, case 'variable'
VisitVariable(vprops) ==
    \E p \in vprops :
        /\ status = "running"
        /\ Visit([type |-> "variable", props |-> p])
        /\ variables' = Append(variables,
                [name |-> p["name"], type |-> "query", hide |-> parseVariableHide(p)])
        /\ UNCHANGED <<status, error, renderOptions, dashboardProps, panelId, cursor,
                       panels, defaultsStack, scopes, annotations, links, dashboard, heap, calls>>

\* processElement, case 'annotation'
VisitAnnotation(aprops) ==
    \E p \in aprops :
        /\ status = "running"
        /\ Visit([type |-> "annotation", props |-> p])
        /\ annotations' = Append(annotations,
                [name |-> p["name"], iconColor |-> Coalesce(p, "color", "light-red")])
        /\ UNCHANGED <<status, error, renderOptions, dashboardProps, panelId, cursor,
                       panels, defaultsStack, scopes, variables, links, dashboard, heap, calls>>

\* processElement, case 'link'
VisitLink(lprops) ==
    \E p \in lprops :
        /\ status = "running"
        /\ Visit([type |-> "link", props |-> p])
        /\ links' = Append(links,
                [title |-> p["title"], url |-> p["url"], type |-> "link",
                 icon |-> Coalesce(p, "icon", "external")])
        /\ UNCHANGED <<status, error, renderOptions, dashboardProps, panelId, cursor,
                       panels, defaultsStack, scopes, variables, annotations, dashboard, heap, calls>>

InitSide == InitWith(LayoutRenders)

NextSide ==
    \/ VisitVariable(VariableProps)
    \/ VisitAnnotation(AnnotationProps)
    \/ VisitLink(LinkProps)
    \/ VisitPanel(SidePanels)
    \/ RowEnter(SideRows)
    \/ RowExit
    \/ RenderReturn

SpecSide == InitSide /\ [][NextSide]_vars

----------------------------------------------------------------------------
(* render from its call: the root element, which may be wrapped in function *)
(* components, is accepted or rejected, then a small tree is walked.         *)

RECURSIVE Wrapped(_, _)
\* the elements of `base` inside up to n function components
Wrapped(base, n) ==
    IF n = 0 THEN base
    ELSE LET inner == Wrapped(base, n - 1)
         IN inner \cup {[type |-> "function", props |-> EmptyObject, result |-> r] : r \in inner}

RootElements ==
    Wrapped({[type |-> "dashboard", props |-> EmptyObject],
             [type |-> "dashboard", props |-> [defaults |-> [colorMode |-> "D"]]],
             [type |-> "stat", props |-> EmptyObject],
             [type |-> "row", props |-> EmptyObject],
             [type |-> "div", props |-> EmptyObject]}, MaxWrap)

RootPanels == {[type |-> "timeseries", props |-> p] : p \in {EmptyObject, [width |-> 18]}}

\* a root check that accepts every element
IsDashboardAny(e) == TRUE

\* componentType === 'dashboard'
IsDashboard(e) == e.type = "dashboard"

InitRoot ==
    /\ element \in RootElements
    /\ status = "render"
    /\ error = NoError
    /\ renderOptions = EmptyObject
    /\ dashboardProps = EmptyObject
    /\ defaultsStack = <<>>
    /\ visited = 0
    /\ panelId = 1
    /\ currentX = 0
    /\ currentY = 0
    /\ rowMaxY = 0
    /\ rowPaddingLeft = 0
    /\ rowPaddingRight = 0
    /\ panels = <<>>
    /\ scopes = <<>>
    /\ variables = <<>>
    /\ annotations = <<>>
    /\ links = <<>>
    /\ dashboard = NoDashboard
    /\ heap = NoObjects
    /\ input = NoInput
    /\ output = <<>>

\* render up to createContext: a function component at the root is called and
\* render is called with its result; any other root but a Dashboard throws
RenderRoot ==
    /\ status = "render"
    /\ IF element.type = "function"
       THEN /\ element' = element.result
            /\ UNCHANGED <<status, error, dashboardProps, defaultsStack, heap, calls>>
       ELSE IF ~IsDashboard(element)
       THEN /\ status' = "error"
            /\ error' = [type |-> "Root element must be a Dashboard component"]
            /\ UNCHANGED <<element, dashboardProps, defaultsStack, heap, calls>>
       ELSE /\ status' = "running"
            /\ dashboardProps' = element.props
            /\ defaultsStack' = MergedDefaults(renderOptions, element.props)
            /\ UNCHANGED <<element, error, heap, calls>>
    /\ UNCHANGED <<visited, renderOptions, panelId, cursor, panels, scopes,
                   accumulators, dashboard, heap, calls>>

NextRoot ==
    \/ RenderRoot
    \/ VisitPanel(RootPanels)
    \/ ContainerEnter(ContainerProps)
    \/ ContainerExit
    \/ RenderReturn

SpecRoot == InitRoot /\ [][NextRoot]_vars

----------------------------------------------------------------------------
(* The walk over a tree with unrecognized nodes: host elements and function *)
(* components. The tree is the `children` of the Dashboard; the elements    *)
(* processElement is called with follow from it, and `visited` is the       *)
(* position in that order. The panels of a tree are told apart by width.    *)

TreePanels == {[type |-> "timeseries", props |-> [width |-> 6]],
               [type |-> "timeseries", props |-> [width |-> 18]]}

\* the lists of at most n elements of S
UpTo(S, n) == UNION {[1..m -> S] : m \in 0..n}

\* an element without component type that is not a function (a fragment, a
\* host element) and a function component: `result` is what calling it
\* returns, <<>> when that is not a valid element
HostElement(cs) == [type |-> "div", props |-> [children |-> cs]]
FunctionElement(cs, r) == [type |-> "function", props |-> [children |-> cs], result |-> r]

\* function components that return nothing, that wrap their children, and
\* that return a panel of their own
TreeNodes ==
    TreePanels
    \cup {HostElement(cs) : cs \in UpTo(TreePanels, 2)}
    \cup UNION {{FunctionElement(cs, <<>>),
                 FunctionElement(cs, <<HostElement(cs)>>),
                 FunctionElement(cs, <<[type |-> "timeseries", props |-> [width |-> 18]]>>)} :
                cs \in UpTo(TreePanels, 2)}

RECURSIVE Calls(_)
RECURSIVE CallsOfAll(_)
\* the elements processElement is called with for element e, in order: for a
\* panel e alone; in the default case the function's result, if any, and then
\* the children
Calls(e) ==
    <<e>> \o (IF e.type \in PanelTypes THEN <<>>
              ELSE IF e.type = "function"
              THEN CallsOfAll(e.result) \o CallsOfAll(e.props["children"])
              ELSE CallsOfAll(e.props["children"]))

\* for (const child of children) processElement(child, ctx)
CallsOfAll(es) ==
    IF es = <<>> THEN <<>> ELSE Calls(Head(es)) \o CallsOfAll(Tail(es))

WalkOrder == CallsOfAll(dashboardProps["children"])

InitTree ==
    /\ \E cs \in UpTo(TreeNodes, 2) :
        /\ cs # <<>>
        /\ Len(CallsOfAll(cs)) <= MaxNodes
        /\ dashboardProps = [children |-> cs]
    /\ renderOptions = EmptyObject
    /\ defaultsStack = <<>>
    /\ createContext
    /\ element = NoElement
    /\ visited = 0
    /\ scopes = <<>>
    /\ dashboard = NoDashboard
    /\ heap = NoObjects
    /\ input = NoInput
    /\ output = <<>>

\* processElement called with the next element, a panel
ProcessPanel ==
    /\ visited < Len(WalkOrder)
    /\ WalkOrder[visited + 1].type \in PanelTypes
    /\ VisitPanel({WalkOrder[visited + 1]})

\* processElement called with the next element, of no component type: the
\* default case emits nothing itself
ProcessUnknown ==
    /\ status = "running"
    /\ visited < Len(WalkOrder)
    /\ WalkOrder[visited + 1].type \notin PanelTypes
    /\ Visit(WalkOrder[visited + 1])
    /\ UNCHANGED <<status, error, renderOptions, dashboardProps, panelId, cursor,
                   panels, defaultsStack, scopes,
                   accumulators, dashboard, heap, calls>>

\* the loop over the root's children is over
ReturnTree ==
    /\ visited = Len(WalkOrder)
    /\ RenderReturn

NextTree ==
    \/ ProcessPanel
    \/ ProcessUnknown
    \/ ReturnTree

SpecTree == InitTree /\ [][NextTree]_vars

----------------------------------------------------------------------------
(* Passes, one after the other, over one tree of plugin panels. The options  *)
(* prop and the options of the extend prop of a node are objects of the      *)
(* heap, which several nodes may share.                                      *)

MaxPlugins == 2

Objects == {"o1", "o2", "o3"}

\* the objects as authored: {p: 0}, {p: 1}, {p: 2}
AuthoredObjects ==
    [o \in Objects |-> [p |-> IF o = "o1" THEN 0 ELSE IF o = "o2" THEN 1 ELSE 2]]

\* <PluginPanel options={o} />, <PluginPanel extend={{options: s}} /> and
\* <PluginPanel options={o} extend={{options: s}} />
PluginElements ==
    {[type |-> "plugin", props |-> [options |-> o]] : o \in Objects}
        \cup {[type |-> "plugin", props |-> [extend |-> [options |-> s]]] : s \in Objects}
        \cup {[type |-> "plugin", props |-> [options |-> o, extend |-> [options |-> s]]] :
                    o \in Objects, s \in Objects}

\* deepMerge(target, source) of two objects of the heap whose values are not
\* plain objects: target[key] = sourceValue for every key of source
deepMergeObjects(h, target, source) ==
    [h EXCEPT ![target] =
        [k \in DOMAIN h[target] \cup DOMAIN h[source] |->
            IF k \in DOMAIN h[source] THEN h[source][k] ELSE h[target][k]]]

InitPasses ==
    /\ \E cs \in UpTo(PluginElements, MaxPlugins) :
       \E d \in {EmptyObject, [defaults |-> [colorMode |-> "D"]]} :
        /\ cs # <<>>
        /\ dashboardProps = [children |-> cs] @@ d
        /\ defaultsStack = MergedDefaults(EmptyObject, d)
    /\ renderOptions = EmptyObject
    /\ createContext
    /\ element = NoElement
    /\ visited = 0
    /\ scopes = <<>>
    /\ dashboard = NoDashboard
    /\ heap = AuthoredObjects
    /\ input = NoInput
    /\ output = <<>>

\* processElement, case 'plugin': buildPluginPanel makes props.options, the
\* object itself, the panel's options; addPanel merges props.extend into the
\* panel, into that object where both have options, and sets the panel's
\* options to the object of extend where the props have none
VisitPlugin ==
    /\ status = "running"
    /\ visited < Len(dashboardProps["children"])
    /\ LET e == dashboardProps["children"][visited + 1]
           place == PlacePanel(e.props, currentX, currentY, rowMaxY,
                               rowPaddingLeft, rowPaddingRight)
           hasOptions == "options" \in DOMAIN e.props
           hasExtend == "extend" \in DOMAIN e.props
           options == IF hasOptions THEN e.props["options"] ELSE e.props["extend"]["options"]
           panel == [id |-> panelId, type |-> e.type, gridPos |-> place.gridPos,
                     options |-> options]
       IN /\ Visit(e)
          /\ heap' = IF hasOptions /\ hasExtend
                     THEN deepMergeObjects(heap, e.props["options"], e.props["extend"]["options"])
                     ELSE heap
          /\ panelId' = NextPanelId(panelId)
          /\ currentY' = place.y0
          /\ panels' = Append(panels, panel)
          /\ updatePosition(panel)
          /\ UNCHANGED <<status, error, renderOptions, dashboardProps,
                         rowPaddingLeft, rowPaddingRight, defaultsStack, scopes,
                         accumulators, dashboard, calls>>

\* JSON.stringify of the panels: every options object as it is now
Written(ps, h) == [i \in 1..Len(ps) |-> [ps[i] EXCEPT !.options = h[ps[i].options]]]

\* renderToString returns: the loop over the root's children is over, the
\* dashboard is built and written out
ReturnPass ==
    /\ status = "running"
    /\ visited = Len(dashboardProps["children"])
    /\ status' = "done"
    /\ dashboard' = BuildDashboard(Written(panels, heap), variables, annotations, links)
    /\ UNCHANGED <<error, element, visited, renderOptions, dashboardProps, panelId,
                   cursor, panels, defaultsStack, scopes, accumulators, heap, calls>>

\* renderToString called again with the same element and options: render
\* merges the defaults and creates a new context
RenderAgain ==
    /\ status = "done"
    /\ status' = "running"
    /\ defaultsStack' = MergedDefaults(renderOptions, dashboardProps)
    /\ panelId' = 1
    /\ currentX' = 0
    /\ currentY' = 0
    /\ rowMaxY' = 0
    /\ rowPaddingLeft' = 0
    /\ rowPaddingRight' = 0
    /\ panels' = <<>>
    /\ variables' = <<>>
    /\ annotations' = <<>>
    /\ links' = <<>>
    /\ element' = NoElement
    /\ visited' = 0
    /\ UNCHANGED <<error, renderOptions, dashboardProps, scopes, dashboard, heap, calls>>

NextPasses ==
    \/ VisitPlugin
    \/ ReturnPass
    \/ RenderAgain

SpecPasses == InitPasses /\ [][NextPasses]_vars

----------------------------------------------------------------------------
(* The value normalizers, each called with an argument and then with what   *)
(* it returned. A value carries what typeof and Array.isArray tell of it    *)
(* where the code asks: [typeof |-> "undefined"], an object with its        *)
(* entries, an array with its items.                                        *)

MaxSteps == 2

\* the value of obj[k], undefined where obj has no such key
Get(obj, k) == IF k \in DOMAIN obj THEN obj[k] ELSE Undefined

RECURSIVE SortAscending(_)
\* .sort((a, b) => a - b) of a set of numbers
SortAscending(S) ==
    IF S = {} THEN <<>>
    ELSE LET least == CHOOSE n \in S : \A m \in S : n <= m
         IN <<least>> \o SortAscending(S \ {least})

colorMap ==
    [yellow |-> "#EAB839", y |-> "#EAB839", green |-> "green", g |-> "green",
     red |-> "red", r |-> "red", orange |-> "orange", o |-> "orange",
     blue |-> "blue", b |-> "blue", transparent |-> "transparent",
     t |-> "transparent", text |-> "text"]

\* a color map that sends the alias y to the name yellow, itself an alias
normalizeColorChained(color) ==
    IF color = "y" THEN "yellow" ELSE IF color \in DOMAIN colorMap THEN colorMap[color] ELSE color

\* normalizeColor
normalizeColor(color) == IF color \in DOMAIN colorMap THEN colorMap[color] ELSE color

\* the array [value, color]
Pair(value, color) == ("0" :> value) @@ ("1" :> color)

\* normalizeThresholds
normalizeThresholds(spec, baseColor) ==
    LET normalizedBase == normalizeColor(baseColor)
        base == [value |-> Null, color |-> normalizedBase]
    IN IF spec.typeof = "undefined" THEN <<base>>
       ELSE IF spec.typeof = "object"
       THEN LET entries == SortAscending(DOMAIN spec.entries)
            IN <<base>> \o [i \in 1..Len(entries) |->
                    [value |-> entries[i], color |-> normalizeColor(spec.entries[entries[i]])]]
       ELSE <<base>> \o [i \in 1..Len(spec.items) |->
                    [value |-> Get(spec.items[i], "0"),
                     color |-> normalizeColor(Get(spec.items[i], "1"))]]

Breakpoints == {50, 70, 90}
ThresholdColors == {"yellow", "r", "#ff0000"}

\* undefined, { 70: 'yellow', 90: 'red' }, [[70, 'yellow'], [90, 'red']]
ThresholdSpecs ==
    {[typeof |-> "undefined"]}
        \cup {[typeof |-> "object", entries |-> m] :
                m \in UNION {[B -> ThresholdColors] :
                        B \in {B \in SUBSET Breakpoints : Cardinality(B) <= MaxSteps}}}
        \cup {[typeof |-> "array", items |-> l] :
                l \in UpTo({Pair(v, c) : v \in Breakpoints, c \in ThresholdColors}, MaxSteps)}

ThresholdInputs ==
    {[normalizer |-> "thresholds", x |-> s, baseColor |-> c] :
        s \in ThresholdSpecs, c \in {"green", "t"}}

String(value) == [typeof |-> "string", value |-> value]

ColorInputs ==
    {[normalizer |-> "color", x |-> String(c)] :
        c \in DOMAIN colorMap \cup {"#ff0000", "light-red"}}

\* the argument of the next call: the input, then what the call before returned
Argument == IF output = <<>> THEN input.x ELSE output[Len(output)]

Normalize(normalizer, result) ==
    /\ input.normalizer = normalizer
    /\ Len(output) < 2
    /\ output' = Append(output, result)
    /\ UNCHANGED <<status, error, element, visited, renderOptions, dashboardProps, panelId,
                   cursor, panels, defaultsStack, scopes, accumulators, dashboard, heap,
                   input>>

CallNormalizeColor == Normalize("color", String(normalizeColor(Argument.value)))

\* the second call is given the array the first returned
CallNormalizeThresholds ==
    Normalize("thresholds",
        normalizeThresholds(IF output = <<>> THEN input.x
                            ELSE [typeof |-> "array", items |-> output[Len(output)]],
                            input.baseColor))

\* An object is modelled by its keys whose value is not undefined, which are
\* the keys JSON.stringify writes. { k: obj.k }
Field(obj, k) == IF k \in DOMAIN obj THEN (k :> obj[k]) ELSE EmptyObject

Object(entries) == [typeof |-> "object", entries |-> entries]
UndefinedValue == [typeof |-> "undefined"]

\* normalizeLegend
normalizeLegend(legend) ==
    IF legend.typeof = "undefined"
    THEN Object([placement |-> "bottom", displayMode |-> "list", calcs |-> <<>>])
    ELSE IF legend.typeof = "string"
    THEN Object([placement |-> legend.value, displayMode |-> "table",
                 calcs |-> <<"mean", "max">>])
    ELSE LET l == legend.entries
         IN Object([placement |-> OrElse(l, "placement", "bottom"),
                    displayMode |-> OrElse(l, "displayMode", "table"),
                    calcs |-> OrElse(l, "calcs", <<>>)]
                   @@ Field(l, "sortBy") @@ Field(l, "sortDesc") @@ Field(l, "width"))

\* normalizeTooltip
normalizeTooltip(tooltip) ==
    IF tooltip.typeof = "undefined" THEN Object([mode |-> "multi", sort |-> "none"])
    ELSE IF tooltip.typeof = "string" THEN Object([mode |-> tooltip.value, sort |-> "none"])
    ELSE LET t == tooltip.entries
         IN Object([mode |-> OrElse(t, "mode", "multi"), sort |-> OrElse(t, "sort", "none")]
                   @@ Field(t, "maxHeight") @@ Field(t, "maxWidth"))

\* normalizeReduceOptions
normalizeReduceOptions(options) ==
    IF options.typeof = "undefined"
    THEN Object([calcs |-> <<>>, fields |-> "", values |-> FALSE])
    ELSE LET o == options.entries
         IN Object([calcs |-> OrElse(o, "calcs", <<>>), fields |-> OrElse(o, "fields", ""),
                    values |-> OrElse(o, "values", FALSE)]
                   @@ Field(o, "limit"))

\* normalizeLineStyle
normalizeLineStyle(style) ==
    IF style.typeof = "undefined" THEN UndefinedValue
    ELSE IF style.typeof = "string" THEN Object([fill |-> style.value])
    ELSE Object(Field(style.entries, "fill") @@ Field(style.entries, "dash"))

\* normalizeScaleDistribution
normalizeScaleDistribution(config) ==
    IF config.typeof = "undefined" THEN Object([type |-> "linear"])
    ELSE LET c == config.entries
         IN Object([type |-> OrElse(c, "type", "linear")]
                   @@ Field(c, "log") @@ Field(c, "linearThreshold"))

Digits == <<"1", "2", "3">>

\* String(mapping.value)
ValueKey(mapping) == IF "value" \in DOMAIN mapping THEN Digits[mapping["value"]] ELSE Undefined

\* normalizeValueMappings: the mapping at the index (counted from 0)
normalizeValueMapping(mapping, index) ==
    LET result == Field(mapping, "text") @@ Field(mapping, "color")
                    @@ [index |-> OrElse(mapping, "index", index)]
    IN IF mapping.type = "value"
       THEN [type |-> "value", options |-> (ValueKey(mapping) :> result)]
       ELSE IF mapping.type = "range"
       THEN [type |-> "range",
             options |-> Field(mapping, "from") @@ Field(mapping, "to") @@ [result |-> result]]
       ELSE IF mapping.type = "regex"
       THEN [type |-> "regex", options |-> Field(mapping, "pattern") @@ [result |-> result]]
       ELSE [type |-> "special", options |-> Field(mapping, "match") @@ [result |-> result]]

\* normalizeValueMappings
normalizeValueMappings(mappings) ==
    IF mappings.typeof = "undefined" THEN <<>>
    ELSE [i \in 1..Len(mappings.items) |-> normalizeValueMapping(mappings.items[i], i - 1)]

WithUndefined(name, objects, strings) ==
    {[normalizer |-> name, x |-> v] :
        v \in {UndefinedValue} \cup {String(s) : s \in strings} \cup {Object(o) : o \in objects}}

LegendInputs ==
    WithUndefined("legend",
        SubObjects([placement |-> "right", displayMode |-> "list", calcs |-> <<"max">>,
                    sortBy |-> "Max", sortDesc |-> TRUE, width |-> 200]),
        {"right", "bottom"})

TooltipInputs ==
    WithUndefined("tooltip",
        SubObjects([mode |-> "single", sort |-> "desc", maxHeight |-> 300, maxWidth |-> 400]),
        {"single", "none"})

ReduceOptionsInputs ==
    WithUndefined("reduceOptions",
        SubObjects([calcs |-> <<"lastNotNull">>, fields |-> "/.*/", values |-> TRUE, limit |-> 5]),
        {})

LineStyleInputs ==
    WithUndefined("lineStyle",
        {[fill |-> "dash", dash |-> <<10, 10>>], [fill |-> "solid"]},
        {"solid", "dot"})

ScaleDistributionInputs ==
    WithUndefined("scaleDistribution",
        SubObjects([type |-> "log", log |-> 2, linearThreshold |-> 1]),
        {})

ValueMappings ==
    {[type |-> "value", value |-> 1, text |-> "On", color |-> "green"],
     [type |-> "value", value |-> 2, text |-> "Off", index |-> 5],
     [type |-> "range", from |-> 1, to |-> 3, text |-> "Low"],
     [type |-> "regex", pattern |-> "^e", text |-> "Error", color |-> "red"],
     [type |-> "special", match |-> "null", text |-> "N/A"]}

ValueMappingInputs ==
    {[normalizer |-> "valueMappings", x |-> v] :
        v \in {UndefinedValue}
                \cup {[typeof |-> "array", items |-> l] : l \in UpTo(ValueMappings, MaxSteps)}}

CallNormalizeLegend == Normalize("legend", normalizeLegend(Argument))
CallNormalizeTooltip == Normalize("tooltip", normalizeTooltip(Argument))
CallNormalizeReduceOptions == Normalize("reduceOptions", normalizeReduceOptions(Argument))
CallNormalizeLineStyle == Normalize("lineStyle", normalizeLineStyle(Argument))
CallNormalizeScaleDistribution ==
    Normalize("scaleDistribution", normalizeScaleDistribution(Argument))

\* the second call is given the array the first returned
CallNormalizeValueMappings ==
    Normalize("valueMappings",
        normalizeValueMappings(IF output = <<>> THEN input.x
                               ELSE [typeof |-> "array", items |-> output[Len(output)]]))

NormalizerInputs ==
    ColorInputs \cup ThresholdInputs \cup LegendInputs \cup TooltipInputs
        \cup ReduceOptionsInputs \cup LineStyleInputs \cup ScaleDistributionInputs
        \cup ValueMappingInputs

InitNormalize ==
    /\ input \in NormalizerInputs
    /\ output = <<>>
    /\ renderOptions = EmptyObject
    /\ dashboardProps = EmptyObject
    /\ defaultsStack = <<>>
    /\ createContext
    /\ element = NoElement
    /\ visited = 0
    /\ scopes = <<>>
    /\ dashboard = NoDashboard
    /\ heap = NoObjects

NextNormalize ==
    \/ CallNormalizeColor
    \/ CallNormalizeThresholds
    \/ CallNormalizeLegend
    \/ CallNormalizeTooltip
    \/ CallNormalizeReduceOptions
    \/ CallNormalizeLineStyle
    \/ CallNormalizeScaleDistribution
    \/ CallNormalizeValueMappings

SpecNormalize == InitNormalize /\ [][NextNormalize]_vars

----------------------------------------------------------------------------
(* deepMerge called with two objects. A JSON value is a number, null, an    *)
(* array or an object.                                                      *)

Num(n) == [number |-> n]
NullValue == [null |-> TRUE]
Arr(items) == [array |-> items]
Obj(fields) == [object |-> fields]

\* typeof value === 'object' && value !== null && !Array.isArray(value)
isPlainObject(value) == "object" \in DOMAIN value

\* a merge that replaces every value of target that source has
deepMergeShallow(target, source) ==
    [key \in DOMAIN target \cup DOMAIN source |->
        IF key \in DOMAIN source THEN source[key] ELSE target[key]]

RECURSIVE deepMerge(_, _)
\* deepMerge: the fields of target after the call
deepMerge(target, source) ==
    [key \in DOMAIN target \cup DOMAIN source |->
        IF key \notin DOMAIN source THEN target[key]
        ELSE IF key \in DOMAIN target /\ isPlainObject(source[key]) /\ isPlainObject(target[key])
        THEN Obj(deepMerge(target[key].object, source[key].object))
        ELSE source[key]]

\* the objects with keys among keys and values among values
ObjectsOver(keys, values) == UNION {[K -> values] : K \in SUBSET keys}

MergeLeaves == {Num(1), Arr(<<Num(1)>>), Arr(<<Num(2), Num(3)>>)}

MergeValues ==
    MergeLeaves \cup {NullValue} \cup {Obj(f) : f \in ObjectsOver({"x", "y"}, MergeLeaves)}

MergeObjects == ObjectsOver({"a", "b"}, MergeValues)

InitMerge ==
    /\ \E t \in MergeObjects : \E s \in MergeObjects :
            input = [target |-> t, source |-> s, authored |-> t]
    /\ output = <<>>
    /\ renderOptions = EmptyObject
    /\ dashboardProps = EmptyObject
    /\ defaultsStack = <<>>
    /\ createContext
    /\ element = NoElement
    /\ visited = 0
    /\ scopes = <<>>
    /\ dashboard = NoDashboard
    /\ heap = NoObjects

\* deepMerge(target, source): target is changed in place and returned
CallDeepMerge ==
    /\ output = <<>>
    /\ input' = [input EXCEPT !.target = deepMerge(input.target, input.source)]
    /\ output' = <<input'.target>>
    /\ UNCHANGED <<status, error, element, visited, renderOptions, dashboardProps, panelId,
                   cursor, panels, defaultsStack, scopes, accumulators, dashboard, heap>>

NextMerge == CallDeepMerge

SpecMerge == InitMerge /\ [][NextMerge]_vars

----------------------------------------------------------------------------
(* Reference ids: nextRefId called with a counter, and extractTargets       *)
(* called with the children of a panel. A string of letters is the          *)
(* sequence of its char codes.                                              *)

MaxCounter == 702
MaxChildren == 3

CharCodeA == 65
CharCodeZ == 90
Alphabet == 26
CodeUnits == 65536

\* String.fromCharCode(code)
fromCharCode(code) == <<code % CodeUnits>>

\* nextRefId
nextRefId(counter) ==
    IF counter < Alphabet THEN fromCharCode(CharCodeA + counter)
    ELSE LET first == (counter \div Alphabet) - 1
             second == counter % Alphabet
         IN fromCharCode(CharCodeA + first) \o fromCharCode(CharCodeA + second)

\* expr.trim() of the expressions of the model
trim(expr) == IF expr = " " THEN "" ELSE expr

\* <Query refId=...>expr</Query>
Query(props) == [typeof |-> "object", type |-> "query", props |-> props]

RECURSIVE extractTargetsFrom(_, _, _)
\* extractTargets: the loop over the children from child i on, refIdCounter
\* being where the loop left it
extractTargetsFrom(children, i, refIdCounter) ==
    IF i > Len(children) THEN <<>>
    ELSE LET child == children[i]
         IN IF child.typeof = "string"
            THEN IF trim(child.value) # ""
                 THEN <<[refId |-> nextRefId(refIdCounter), expr |-> trim(child.value),
                         legendFormat |-> "__auto"]>>
                        \o extractTargetsFrom(children, i + 1, refIdCounter + 1)
                 ELSE extractTargetsFrom(children, i + 1, refIdCounter)
            ELSE IF child.type = "query" /\ child.props["children"] # ""
            THEN IF "refId" \in DOMAIN child.props
                 THEN <<[refId |-> child.props["refId"], expr |-> child.props["children"],
                         legendFormat |-> OrElse(child.props, "legend", "__auto")]>>
                        \o extractTargetsFrom(children, i + 1, refIdCounter)
                 ELSE <<[refId |-> nextRefId(refIdCounter), expr |-> child.props["children"],
                         legendFormat |-> OrElse(child.props, "legend", "__auto")]>>
                        \o extractTargetsFrom(children, i + 1, refIdCounter + 1)
            ELSE extractTargetsFrom(children, i + 1, refIdCounter)

\* extractTargets
extractTargets(children) == extractTargetsFrom(children, 1, 0)

\* string children, Query children with and without refId and with no
\* expression, and a child that is neither
TargetChildren ==
    {String("up"), String(" ")}
        \cup {Query([children |-> "rate"]), Query([children |-> ""]),
              Query([children |-> "sum", refId |-> <<CharCodeA>>]),
              Query([children |-> "max", refId |-> <<CharCodeA + 1>>, legend |-> "m"])}
        \cup {[typeof |-> "object", type |-> "div", props |-> [children |-> "text"]]}

RefIdInputs ==
    {[function |-> "nextRefId", counter |-> n] : n \in 0..MaxCounter}
        \cup {[function |-> "extractTargets", children |-> cs] :
                cs \in UpTo(TargetChildren, MaxChildren)}

InitRefIds ==
    /\ input \in RefIdInputs
    /\ output = <<>>
    /\ renderOptions = EmptyObject
    /\ dashboardProps = EmptyObject
    /\ defaultsStack = <<>>
    /\ createContext
    /\ element = NoElement
    /\ visited = 0
    /\ scopes = <<>>
    /\ dashboard = NoDashboard
    /\ heap = NoObjects

CallNextRefId ==
    /\ input.function = "nextRefId"
    /\ output = <<>>
    /\ output' = <<nextRefId(input.counter)>>
    /\ UNCHANGED <<status, error, element, visited, renderOptions, dashboardProps, panelId,
                   cursor, panels, defaultsStack, scopes, accumulators, dashboard, heap,
                   input>>

CallExtractTargets ==
    /\ input.function = "extractTargets"
    /\ output = <<>>
    /\ output' = <<extractTargets(input.children)>>
    /\ UNCHANGED <<status, error, element, visited, renderOptions, dashboardProps, panelId,
                   cursor, panels, defaultsStack, scopes, accumulators, dashboard, heap,
                   input>>

NextRefIds ==
    \/ CallNextRefId
    \/ CallExtractTargets

SpecRefIds == InitRefIds /\ [][NextRefIds]_vars

----------------------------------------------------------------------------
(* Flow layout alone: rows, containers and panels that leave the place of  *)
(* their record to the cursor (no extend)                                  *)

FlowPanels == {e \in LayoutPanels : "extend" \notin DOMAIN e.props}

InitFlow == InitWith({[options |-> EmptyObject, props |-> EmptyObject]})

NextFlow ==
    \/ VisitPanel(FlowPanels)
    \/ RowEnter(RowProps)
    \/ RowExit
    \/ ContainerEnter(ContainerProps)
    \/ ContainerExit
    \/ RenderReturn

SpecFlow == InitFlow /\ [][NextFlow]_vars

----------------------------------------------------------------------------
(* Rows with padding: every row has paddingLeft 2 and paddingRight 4, and  *)
(* the panels have no margin and fit between the paddings                  *)

PaddedRow == [paddingLeft |-> 2, paddingRight |-> 4]

PaddedPanels == {e \in FlowPanels : "marginLeft" \notin DOMAIN e.props}

InitPadding == InitWith({[options |-> EmptyObject, props |-> EmptyObject]})

NextPadding ==
    \/ VisitPanel(PaddedPanels)
    \/ RowEnter({PaddedRow})
    \/ RowExit
    \/ ContainerEnter(ContainerProps)
    \/ ContainerExit
    \/ RenderReturn

SpecPadding == InitPadding /\ [][NextPadding]_vars

----------------------------------------------------------------------------
(* Panels that declare x and y, as the test 'uses explicit x/y positions   *)
(* when provided' does, placed by buildBasePanel.                           *)

ExplicitPanels ==
    {[type |-> "stat", props |-> xy @@ w] :
        xy \in {EmptyObject, [x |-> 10, y |-> 5]},
        w \in {EmptyObject, [width |-> 6], [width |-> 18]}}

InitExplicit == InitWith(LayoutRenders)

NextExplicit ==
    \/ VisitPanel(ExplicitPanels)
    \/ RenderReturn

SpecExplicit == InitExplicit /\ [][NextExplicit]_vars

----------------------------------------------------------------------------
(* Steps and records the claims speak of *)

\* processElement was called in this step
Visited == visited' = visited + 1

\* this step visited a visual panel
PanelVisited == Visited /\ element'.type \in PanelTypes

\* this step entered a row
RowEntered == Visited /\ element'.type = "row"

\* this step left the innermost scope, which is of the given kind, without error
ScopeExited(kind) ==
    /\ status' = "running"
    /\ Len(scopes') = Len(scopes) - 1
    /\ scopes[Len(scopes)].kind = kind

\* the record this step pushed
NewPanel == panels'[Len(panels')]

Bottom(panel) == panel.gridPos.y + panel.gridPos.h

OpenKinds == {scopes[i].kind : i \in 1..Len(scopes)}

\* the index before the first record of the innermost open container
ScopeStart ==
    LET cs == {i \in 1..Len(scopes) : scopes[i].kind = "container"}
    IN IF cs = {} THEN 0
       ELSE scopes[CHOOSE i \in cs : \A j \in cs : j <= i].panelCountBefore

\* the largest bottom edge of the records of the innermost open container
\* (of the document outside containers), 0 when there is none
MaxBottom ==
    LET bs == {Bottom(panels[i]) : i \in (ScopeStart + 1)..Len(panels)}
    IN IF bs = {} THEN 0 ELSE CHOOSE b \in bs : \A c \in bs : c <= b

\* currentY of the outermost scope: the one saved by the outermost open
\* container, the cursor's outside containers
TopY ==
    LET cs == {i \in 1..Len(scopes) : scopes[i].kind = "container"}
    IN IF cs = {} THEN currentY
       ELSE scopes[CHOOSE i \in cs : \A j \in cs : i <= j].savedCurrentY

\* the layers of the open defaults scopes, outermost first
ScopeLayers ==
    LET ds == SelectSeq(scopes, LAMBDA f : f.kind = "defaults")
    IN [i \in 1..Len(ds) |-> ds[i].defaults]

\* options.defaults and the dashboard's defaults prop, {} when not given
ExternalDefaults ==
    IF "defaults" \in DOMAIN renderOptions THEN renderOptions["defaults"] ELSE EmptyObject
DashboardDefaults ==
    IF "defaults" \in DOMAIN dashboardProps THEN dashboardProps["defaults"] ELSE EmptyObject

Innermost(S) == CHOOSE i \in S : \A j \in S : j <= i

\* layer l has a global entry, a per-panel-type entry, for key k
HasGlobal(l, k) == k \in DOMAIN l
HasKind(l, t, k) ==
    /\ "panels" \in DOMAIN l
    /\ t \in DOMAIN l["panels"]
    /\ k \in DOMAIN l["panels"][t]

\* the panel's explicit property k when it has one, else rest
Explicit(p, k, rest) == IF k \in DOMAIN p /\ p[k] # Null THEN p[k] ELSE rest

\* a stat panel whose color mode is fixed by baseColor without thresholds
FixedColor(e) ==
    e.type = "stat" /\ "baseColor" \in DOMAIN e.props /\ "thresholds" \notin DOMAIN e.props

\* the chains of the per-panel-type entries and of the global entries: the
\* external `panels` map counts only when the dashboard's defaults have none
KindChain ==
    <<IF "panels" \in DOMAIN DashboardDefaults THEN DashboardDefaults
      ELSE ExternalDefaults>> \o ScopeLayers
GlobalChain == <<ExternalDefaults, DashboardDefaults>> \o ScopeLayers

\* the innermost per-panel-type entry when there is one, else the innermost
\* global entry, else the built-in default; a null per-panel-type entry gives
\* the built-in default and a null global entry gives nullGlobal
Resolved(t, k, builtin, nullGlobal) ==
    LET ks == {i \in 1..Len(KindChain) : HasKind(KindChain[i], t, k)}
        gs == {i \in 1..Len(GlobalChain) : HasGlobal(GlobalChain[i], k)}
    IN IF ks # {}
       THEN LET v == KindChain[Innermost(ks)]["panels"][t][k]
            IN IF v = Null THEN builtin ELSE v
       ELSE IF gs # {}
       THEN LET v == GlobalChain[Innermost(gs)][k]
            IN IF v = Null THEN nullGlobal ELSE v
       ELSE builtin

\* the layers of the stack that have a per-panel-type, a global, entry for k
KindLayers(t, k) ==
    {i \in 1..Len(defaultsStack) : HasKind(defaultsStack[i], t, k)}
GlobalLayers(k) ==
    {i \in 1..Len(defaultsStack) : HasGlobal(defaultsStack[i], k)}

OverridesGridPos(e) == "extend" \in DOMAIN e.props /\ "gridPos" \in DOMAIN e.props["extend"]
OverridesId(e) == "extend" \in DOMAIN e.props /\ "id" \in DOMAIN e.props["extend"]

----------------------------------------------------------------------------
(* Claims *)

\* C1: every panel record of a returned document has 0 <= x, x + w <= 24,
\* w > 0 and h > 0.
C1_GridInvariant ==
    status = "done" =>
        \A i \in 1..Len(panels) :
            /\ 0 <= panels[i].gridPos.x
            /\ panels[i].gridPos.x + panels[i].gridPos.w <= GridWidth
            /\ panels[i].gridPos.w > 0
            /\ panels[i].gridPos.h > 0

\* C2 as stated: a flow-placed panel that fits, (currentX - paddingLeft) + m + w
\* <= 24 - paddingLeft - paddingRight, is at (currentX + m, currentY); one that
\* does not fit is at x = paddingLeft and y = the maximum bottom edge of the
\* panels placed before it.
C2_WrapAsStated ==
    [][(PanelVisited /\ ~OverridesGridPos(element')) =>
        LET p == element'.props
            m == OrElse(p, "marginLeft", 0)
            w == OrElse(p, "width", DefaultWidth)
            fits == (currentX - rowPaddingLeft) + m + w
                        <= GridWidth - rowPaddingLeft - rowPaddingRight
            bs == {Bottom(panels[i]) : i \in 1..Len(panels)}
            maxBottom == IF bs = {} THEN 0 ELSE CHOOSE b \in bs : \A c \in bs : c <= b
        IN IF fits
           THEN NewPanel.gridPos.x = currentX + m /\ NewPanel.gridPos.y = currentY
           ELSE NewPanel.gridPos.x = rowPaddingLeft /\ NewPanel.gridPos.y = maxBottom
    ]_vars

\* C2 amended: a flow-placed panel (no extend override of gridPos) that fits is at
\* (currentX + m, currentY); one that does not fit is at x = paddingLeft + m and
\* y = the maximum bottom edge of the records placed before it in the innermost
\* enclosing container (in the document, outside containers), not the bottom
\* of the last panel only.
C2_Wrap ==
    [][(PanelVisited /\ ~OverridesGridPos(element')) =>
        LET p == element'.props
            m == OrElse(p, "marginLeft", 0)
            w == OrElse(p, "width", DefaultWidth)
            fits == (currentX - rowPaddingLeft) + m + w
                        <= GridWidth - rowPaddingLeft - rowPaddingRight
        IN IF fits
           THEN NewPanel.gridPos.x = currentX + m /\ NewPanel.gridPos.y = currentY
           ELSE NewPanel.gridPos.x = rowPaddingLeft + m /\ NewPanel.gridPos.y = MaxBottom
    ]_vars

\* C2 witness: a panel with a margin wrapped below a taller earlier panel that
\* is not the last one placed.
C2_Witness ==
    /\ Len(panels) = 3
    /\ panels[1].type # "row"
    /\ Bottom(panels[1]) > Bottom(panels[2])
    /\ panels[2].gridPos.y = panels[1].gridPos.y
    /\ panels[3].gridPos.y = Bottom(panels[1])
    /\ element.type \in PanelTypes
    /\ "marginLeft" \in DOMAIN element.props
    /\ panels[3].gridPos.x = 8

\* C3 as stated: in every returned document panels[i].id = i.
C3_IdsAsStated ==
    status = "done" => \A i \in 1..Len(panels) : panels[i].id = i

\* C3 amended: every record pushed, a row's as well as a panel's, inside
\* containers and defaults scopes too, has id = its position in the panel list
\* unless the panel's extend object sets id, and no later step changes an id.
C3_Ids ==
    [][/\ (Len(panels') = Len(panels) + 1 /\ ~OverridesId(element'))
            => NewPanel.id = Len(panels')
       /\ Len(panels') >= Len(panels)
       /\ \A i \in 1..Len(panels) : panels'[i].id = panels[i].id
    ]_vars

\* C3 witness: a returned document with a row, and a panel inside a container,
\* that carry the ids 1..3 in order.
C3_Witness ==
    /\ status = "done"
    /\ Len(panels) = 3
    /\ panels[1].type = "row"
    /\ panels[2].gridPos.x > 0
    /\ \A i \in 1..3 : panels[i].id = i

\* C4: when a container's children have been processed without error, every
\* record produced inside it lies, after translation, within
\* [containerX, containerX + containerWidth).
C4_Containment ==
    [][ScopeExited("container") =>
        LET f == scopes[Len(scopes)]
        IN \A i \in (f.panelCountBefore + 1)..Len(panels') :
            /\ f.containerX <= panels'[i].gridPos.x
            /\ panels'[i].gridPos.x + panels'[i].gridPos.w
                    <= f.containerX + f.containerWidth
    ]_vars

\* C5: a container that declares both width and fill, or neither, makes render
\* throw.
C5_ExactlyOne ==
    (/\ element.type = "container"
     /\ ("fill" \in DOMAIN element.props) = ("width" \in DOMAIN element.props))
        => status = "error"

\* C6 as stated: the value used for a defaultable property is the first one
\* set in: the panel's explicit property, the enclosing defaults scopes from the
\* innermost out, the dashboard-level defaults, the external defaults, the
\* built-in default; a layer that does not mention the key, or holds null for
\* it, is skipped. A layer's value for a key is its per-panel-type entry for
\* the panel's type when it has one and its global entry otherwise.
C6_ChainAsStated ==
    [][PanelVisited =>
        LET e == element'
            c == NewPanel.config
            chain == <<ExternalDefaults, DashboardDefaults>> \o ScopeLayers
            LayerValue(l, t, k) ==
                IF HasKind(l, t, k) THEN l["panels"][t][k]
                ELSE IF HasGlobal(l, k) THEN l[k] ELSE Null
            ChainValue(t, k, builtin) ==
                LET idx == {i \in 1..Len(chain) : LayerValue(chain[i], t, k) # Null}
                IN IF idx = {} THEN builtin
                   ELSE LayerValue(chain[Innermost(idx)], t, k)
        IN IF e.type = "timeseries"
           THEN /\ c.colorMode = Explicit(e.props, "colorMode",
                        ChainValue("timeseries", "colorMode", "palette-classic"))
                /\ c.fillOpacity = Explicit(e.props, "fill",
                        ChainValue("timeseries", "fill", Undefined))
           ELSE c.colorMode = IF FixedColor(e) THEN "fixed"
                              ELSE ChainValue("stat", "colorMode", "thresholds")
    ]_vars

\* C6 amended: the value used is the first one present in: the panel's explicit
\* property (a stat panel with baseColor and no thresholds has the fixed color
\* mode); the per-panel-type entry, for the panel's type, of the innermost
\* defaults scope that has one, then of the dashboard-level defaults' `panels`
\* map, and of the external defaults' `panels` map only when the dashboard-level
\* defaults have no `panels` map; the global entry of the innermost defaults
\* scope that has one, then of the dashboard-level defaults, then of the
\* external defaults; the built-in default. A null entry is present: it ends the
\* search, and the built-in default is used (null itself for a null global
\* entry of fill, which has no built-in default).
C6_Chain ==
    [][PanelVisited =>
        LET e == element'
            c == NewPanel.config
        IN IF e.type = "timeseries"
           THEN /\ c.colorMode = Explicit(e.props, "colorMode",
                        Resolved("timeseries", "colorMode",
                                 "palette-classic", "palette-classic"))
                /\ c.fillOpacity = Explicit(e.props, "fill",
                        Resolved("timeseries", "fill", Undefined, Null))
           ELSE c.colorMode = IF FixedColor(e) THEN "fixed"
                              ELSE Resolved("stat", "colorMode",
                                            "thresholds", "thresholds")
    ]_vars

\* C6 witness: a timeseries panel without explicit color mode, inside two
\* scopes that set the color mode globally, under external defaults that set
\* it globally, takes the dashboard-level per-panel-type value.
C6_Witness ==
    /\ Len(panels) = 1
    /\ element.type = "timeseries"
    /\ "colorMode" \notin DOMAIN element.props
    /\ Len(ScopeLayers) = 2
    /\ \A i \in 1..2 : HasGlobal(ScopeLayers[i], "colorMode")
                        /\ ScopeLayers[i]["colorMode"] # Null
    /\ HasGlobal(ExternalDefaults, "colorMode")
    /\ HasKind(DashboardDefaults, "timeseries", "colorMode")
    /\ panels[1].config.colorMode = "D"

\* C7 as stated: layer order first, specificity second: the innermost layer
\* that mentions the key decides, with its per-panel-type entry when it has one
\* and its global entry otherwise, so that an inner layer's global value beats
\* an outer layer's per-panel-type value (no entry of the key being null).
C7_LayerFirstAsStated ==
    \A t \in PanelTypes, k \in DefaultKeys :
        LET idx == KindLayers(t, k) \cup GlobalLayers(k)
            l == defaultsStack[Innermost(idx)]
            v == IF HasKind(l, t, k) THEN l["panels"][t][k] ELSE l[k]
            r == getCurrentDefaults(defaultsStack, t)
            set == /\ \A i \in KindLayers(t, k) : defaultsStack[i]["panels"][t][k] # Null
                   /\ \A i \in GlobalLayers(k) : defaultsStack[i][k] # Null
        IN (idx # {} /\ set) => (k \in DOMAIN r /\ r[k] = v)

\* C7 amended: specificity first, layer order second: when some layer has a
\* per-panel-type entry for the panel's type and the key, the innermost such
\* entry, if not null, is the resolved value whatever global values the same
\* or inner layers hold; only a key without per-panel-type entry resolves to
\* the global value of the innermost layer that has one.
C7_SpecificityFirst ==
    \A t \in PanelTypes, k \in DefaultKeys :
        LET ks == KindLayers(t, k)
            gs == GlobalLayers(k)
            r == getCurrentDefaults(defaultsStack, t)
        IN /\ ks # {} =>
                LET v == defaultsStack[Innermost(ks)]["panels"][t][k]
                IN v # Null => (k \in DOMAIN r /\ r[k] = v)
           /\ (ks = {} /\ gs # {}) =>
                (k \in DOMAIN r /\ r[k] = defaultsStack[Innermost(gs)][k])

\* C7 witness: a timeseries panel takes the fill of the outermost layer's
\* per-panel-type entry although that layer and an inner one set fill globally.
C7_Witness ==
    /\ Len(panels) = 1
    /\ element.type = "timeseries"
    /\ element.props = EmptyObject
    /\ Len(defaultsStack) >= 2
    /\ HasKind(defaultsStack[1], "timeseries", "fill")
    /\ HasGlobal(defaultsStack[1], "fill")
    /\ defaultsStack[1]["fill"] # Null
    /\ HasGlobal(defaultsStack[2], "fill")
    /\ defaultsStack[2]["fill"] # Null
    /\ defaultsStack[1]["panels"]["timeseries"]["fill"] # Null
    /\ panels[1].config.fillOpacity = defaultsStack[1]["panels"]["timeseries"]["fill"]

\* C8 as stated: null deletes the key at the global as at the per-panel-type
\* level, so the resolved map never contains null.
C8_NeverNullAsStated ==
    \A t \in PanelTypes :
        LET r == getCurrentDefaults(defaultsStack, t)
        IN \A k \in DOMAIN r : r[k] # Null

\* C8 amended: when the innermost per-panel-type entry for a key is null the
\* key is absent from the resolved map, whatever outer layers and global
\* entries hold; a null global entry is not deleted: when no layer has a
\* per-panel-type entry and the innermost global entry is null, the resolved
\* map holds null for the key.
C8_Unset ==
    \A t \in PanelTypes, k \in DefaultKeys :
        LET ks == KindLayers(t, k)
            gs == GlobalLayers(k)
            r == getCurrentDefaults(defaultsStack, t)
        IN /\ (ks # {} /\ defaultsStack[Innermost(ks)]["panels"][t][k] = Null)
                => k \notin DOMAIN r
           /\ (ks = {} /\ gs # {} /\ defaultsStack[Innermost(gs)][k] = Null)
                => (k \in DOMAIN r /\ r[k] = Null)

\* C8 witness: a stat panel under a scope that sets the color mode globally
\* and a null per-panel-type color mode for stat gets the built-in 'thresholds'.
C8_Witness ==
    /\ Len(panels) = 1
    /\ element.type = "stat"
    /\ element.props = EmptyObject
    /\ KindLayers("stat", "colorMode") # {}
    /\ \E i \in GlobalLayers("colorMode") : defaultsStack[i]["colorMode"] # Null
    /\ "colorMode" \notin DOMAIN getCurrentDefaults(defaultsStack, "stat")
    /\ panels[1].config.colorMode = "thresholds"

\* C9: the defaults stack is at every moment the root layer followed by the
\* layers of the defaults scopes that are open, so a scope's layer is pushed at
\* entry and gone at exit, and a panel's configuration is resolved from the
\* root layers and the layers of the scopes that enclose it alone.
C9_Scoping ==
    [][/\ defaultsStack' = MergedDefaults(renderOptions', dashboardProps') \o ScopeLayers'
       /\ ScopeExited("defaults") =>
            defaultsStack' = SubSeq(defaultsStack, 1, Len(defaultsStack) - 1)
       /\ (PanelVisited /\ element'.type = "timeseries") =>
            /\ NewPanel.config.colorMode = Explicit(element'.props, "colorMode",
                    Resolved("timeseries", "colorMode",
                             "palette-classic", "palette-classic"))
            /\ NewPanel.config.fillOpacity = Explicit(element'.props, "fill",
                    Resolved("timeseries", "fill", Undefined, Null))
    ]_vars

\* C9 witness: a panel inside two nested scopes took the color mode of the
\* outer and the fill of the inner one, and the inner scope has been left: the
\* stack is back to the root layer and the outer scope's.
C9_Witness ==
    /\ visited = 3
    /\ Len(panels) = 1
    /\ panels[1].config.colorMode = "A"
    /\ panels[1].config.fillOpacity = "B"
    /\ Len(scopes) = 1
    /\ scopes[1].kind = "defaults"
    /\ defaultsStack = MergedDefaults(renderOptions, dashboardProps) \o <<scopes[1].defaults>>

FirstChildOfRow ==
    /\ element.type = "row"
    /\ scopes # <<>>
    /\ scopes[Len(scopes)].kind = "row"
    /\ scopes[Len(scopes)].panelCountBefore + 1 = Len(panels)

\* C11 as stated: a row emits one record with x = 0, w = 24, h = 1 and y = the
\* maximum bottom edge of what was placed before it in the scope, and sets the
\* padding from paddingLeft/paddingRight, else padding, else 0; the row's first
\* flow-placed child is at y = row.y + 1 and x = paddingLeft.
C11_RowEntryAsStated ==
    [][/\ RowEntered =>
            /\ Len(panels') = Len(panels) + 1
            /\ NewPanel.gridPos = [x |-> 0, y |-> MaxBottom, w |-> GridWidth, h |-> RowHeight]
       /\ (PanelVisited /\ FirstChildOfRow /\ ~OverridesGridPos(element')) =>
            /\ NewPanel.gridPos.y = panels[Len(panels)].gridPos.y + 1
            /\ NewPanel.gridPos.x = rowPaddingLeft
    ]_vars

\* C11 amended: a row emits one record with x = 0, w = 24, h = 1 and y = the
\* maximum bottom edge of the records placed before it in the innermost
\* enclosing container (in the document outside containers); the padding is
\* paddingLeft (paddingRight), else padding, else 0; the row's first
\* flow-placed child, of left margin m, is at y = row.y + 1 and
\* x = paddingLeft + m, whether it fits the line or not.
C11_RowEntry ==
    [][/\ RowEntered =>
            LET p == element'.props
            IN /\ Len(panels') = Len(panels) + 1
               /\ NewPanel.type = "row"
               /\ NewPanel.gridPos = [x |-> 0, y |-> MaxBottom, w |-> GridWidth, h |-> RowHeight]
               /\ rowPaddingLeft' = IF "paddingLeft" \in DOMAIN p THEN p["paddingLeft"]
                                     ELSE IF "padding" \in DOMAIN p THEN p["padding"] ELSE 0
               /\ rowPaddingRight' = IF "paddingRight" \in DOMAIN p THEN p["paddingRight"]
                                      ELSE IF "padding" \in DOMAIN p THEN p["padding"] ELSE 0
       /\ (PanelVisited /\ FirstChildOfRow /\ ~OverridesGridPos(element')) =>
            /\ NewPanel.gridPos.y = panels[Len(panels)].gridPos.y + 1
            /\ NewPanel.gridPos.x = rowPaddingLeft + OrElse(element'.props, "marginLeft", 0)
    ]_vars

\* C11 witness: a row with padding 2 and paddingLeft 4 entered below a panel,
\* at y = 8, and its first child, of margin 8, at (12, 9).
C11_Witness ==
    /\ Len(panels) = 3
    /\ panels[2].type = "row"
    /\ panels[2].gridPos.y = 8
    /\ rowPaddingLeft = 4
    /\ rowPaddingRight = 2
    /\ panels[3].type \in PanelTypes
    /\ panels[3].gridPos.x = 12
    /\ panels[3].gridPos.y = 9

\* C12: a panel that declares x and y is emitted with exactly those gridPos.x
\* and gridPos.y, and the cursor is not wrapped for it.
C12_ExplicitCoordinates ==
    [][(PanelVisited /\ {"x", "y"} \subseteq DOMAIN element'.props) =>
        /\ NewPanel.gridPos.x = element'.props["x"]
        /\ NewPanel.gridPos.y = element'.props["y"]
        /\ currentY' = currentY
    ]_vars

\* C13: render called with a root that, after the function components around
\* it are unwrapped, is not a Dashboard throws 'Root element must be a Dashboard
\* component' before anything is processed; once render has thrown (root,
\* container declaration, container width) it never returns a document, and a
\* document is returned only from a pass without error whose scopes are closed.
C13_StructuralErrors ==
    [][/\ (status = "render" /\ element.type = "function") =>
            (status' = "render" /\ element' = element.result)
       /\ (status = "render" /\ element.type \notin {"function", "dashboard"}) =>
            /\ status' = "error"
            /\ error' = [type |-> "Root element must be a Dashboard component"]
            /\ panels' = <<>>
       /\ (status = "render" /\ element.type = "dashboard") => status' = "running"
       /\ status = "error" => status' = "error"
       /\ status' = "error" => error' # NoError
       /\ status' = "done" =>
            (status \in {"running", "done"} /\ error' = NoError /\ scopes' = <<>>)
    ]_vars

\* C13 witness: render threw for a row at the root.
C13_Witness ==
    /\ status = "error"
    /\ error = [type |-> "Root element must be a Dashboard component"]
    /\ element.type = "row"
    /\ panels = <<>>

\* this step visited a variable, annotation or link node
SideVisited == Visited /\ element'.type \in {"variable", "annotation", "link"}

\* seq' is seq with one entry appended
Appended(old, new) == Len(new) = Len(old) + 1 /\ SubSeq(new, 1, Len(old)) = old

\* C15: visiting a variable, annotation or link node leaves the cursor, the
\* padding, the id counter, the defaults stack and the panel list unchanged
\* and appends one entry, the node's, to its own collection alone; the
\* returned dashboard carries templating, annotations and links exactly when
\* the collection is not empty, with the entries in the order of the visits.
C15_SideEntities ==
    [][/\ SideVisited =>
            /\ cursor' = cursor
            /\ panelId' = panelId
            /\ defaultsStack' = defaultsStack
            /\ panels' = panels
            /\ IF element'.type = "variable"
               THEN /\ Appended(variables, variables')
                    /\ variables'[Len(variables')].name = element'.props["name"]
                    /\ annotations' = annotations /\ links' = links
               ELSE IF element'.type = "annotation"
               THEN /\ Appended(annotations, annotations')
                    /\ annotations'[Len(annotations')].name = element'.props["name"]
                    /\ variables' = variables /\ links' = links
               ELSE /\ Appended(links, links')
                    /\ links'[Len(links')].title = element'.props["title"]
                    /\ variables' = variables /\ annotations' = annotations
       /\ (Visited /\ ~SideVisited) => accumulators' = accumulators
       /\ (status = "running" /\ status' = "done") =>
            /\ dashboard'.panels = panels
            /\ ("templating" \in DOMAIN dashboard') = (variables # <<>>)
            /\ ("annotations" \in DOMAIN dashboard') = (annotations # <<>>)
            /\ ("links" \in DOMAIN dashboard') = (links # <<>>)
            /\ variables # <<>> => dashboard'["templating"].list = variables
            /\ annotations # <<>> => dashboard'["annotations"].list = annotations
            /\ links # <<>> => dashboard'["links"] = links
    ]_vars

\* C15 witness: a dashboard returned with one variable, no annotations and no
\* links; the variable is visited in a padded row and the panel after it is at
\* the row's padding with the id that follows the row's.
C15_Witness ==
    /\ status = "done"
    /\ DOMAIN dashboard = {"panels", "templating"}
    /\ Len(dashboard["templating"].list) = 1
    /\ dashboard["templating"].list[1].name = "v2"
    /\ Len(panels) = 2
    /\ panels[1].type = "row"
    /\ panels[2].gridPos.x = 2
    /\ panels[2].id = 2

RECURSIVE PanelsAsStated(_)
RECURSIVE PanelsOfAllAsStated(_)
\* the panel nodes visited when a function node is replaced by its result and
\* any other unrecognized node by its children
PanelsAsStated(e) ==
    IF e.type \in PanelTypes THEN <<e>>
    ELSE IF e.type = "function" THEN PanelsOfAllAsStated(e.result)
    ELSE PanelsOfAllAsStated(e.props["children"])
PanelsOfAllAsStated(es) ==
    IF es = <<>> THEN <<>> ELSE PanelsAsStated(Head(es)) \o PanelsOfAllAsStated(Tail(es))

\* C14: the records of a returned document are, in order, one per panel node
\* of the tree in which a function node stands for its result and any other
\* unrecognized node for its children: none twice, none skipped.
C14_OneRecordPerNode ==
    status = "done" =>
        LET nodes == PanelsOfAllAsStated(dashboardProps["children"])
        IN /\ Len(panels) = Len(nodes)
           /\ \A i \in 1..Len(nodes) : panels[i].gridPos.w = nodes[i].props["width"]

\* C16: a pass over the same tree with the same options returns the document
\* the pass before returned, and starts with id counter 1, cursor
\* (0,0,0,0,0) and a defaults stack of at most the root layer.
C16_PassesDeterministic ==
    [][/\ (status = "running" /\ status' = "done" /\ dashboard # NoDashboard) =>
            dashboard' = dashboard
       /\ (status = "done" /\ status' = "running") =>
            /\ panelId' = 1
            /\ cursor' = <<0, 0, 0, 0, 0>>
            /\ Len(defaultsStack') <= 1
    ]_vars

\* C17: the objects the nodes of the tree refer to, and the props of the
\* nodes, are after every step what they were before it.
C17_InputNotMutated ==
    [][heap' = heap /\ dashboardProps' = dashboardProps]_vars

\* the breakpoints of a threshold specification with their colors normalized,
\* as a bag
InputSteps(spec) ==
    IF spec.typeof = "object"
    THEN [s \in {[value |-> v, color |-> normalizeColor(spec.entries[v])] :
                        v \in DOMAIN spec.entries} |-> 1]
    ELSE IF spec.typeof = "array"
    THEN LET step(i) == [value |-> spec.items[i]["0"],
                         color |-> normalizeColor(spec.items[i]["1"])]
         IN [s \in {step(i) : i \in 1..Len(spec.items)} |->
                Cardinality({i \in 1..Len(spec.items) : step(i) = s})]
    ELSE [s \in {} |-> 0]

\* the steps after the first, as a bag
OutputSteps(steps) ==
    LET rest == SubSeq(steps, 2, Len(steps))
    IN [s \in {rest[i] : i \in 1..Len(rest)} |->
            Cardinality({i \in 1..Len(rest) : rest[i] = s})]

\* C18: for absent, map and list input, normalizeThresholds returns the step
\* {value: null, color: normalizeColor(baseColor)} followed by exactly the
\* breakpoints of the input in ascending order of value, each with its color
\* normalized.
C18_Thresholds ==
    (input.normalizer = "thresholds" /\ output # <<>>) =>
        LET steps == output[1]
        IN /\ steps[1] = [value |-> Null, color |-> normalizeColor(input.baseColor)]
           /\ OutputSteps(steps) = InputSteps(input.x)
           /\ \A i \in 2..Len(steps) : \A j \in i..Len(steps) :
                    steps[i].value <= steps[j].value

\* C19 as stated: every normalizer, called with what it returned, returns it
\* again.
C19_IdempotentAsStated ==
    Len(output) = 2 => output[2] = output[1]

\* the normalizers whose return value is of a form they accept
SelfAccepting ==
    {"color", "legend", "tooltip", "reduceOptions", "lineStyle", "scaleDistribution"}

\* C19: the color, legend, tooltip, reduce-options, line-style and
\* scale-distribution normalizers, called with what they returned, return it
\* again (as written to JSON); the threshold normalizer never does, and the
\* value-mapping normalizer does only for no mappings.
C19_Idempotent ==
    Len(output) = 2 =>
        /\ input.normalizer \in SelfAccepting => output[2] = output[1]
        /\ input.normalizer = "thresholds" => Len(output[2]) = Len(output[1]) + 1
        /\ input.normalizer = "valueMappings" =>
                (output[2] = output[1]) = (output[1] = <<>>)

\* C19 witness: the legend shorthand 'right', normalized to an object and then
\* normalized again.
C19_Witness ==
    /\ input.normalizer = "legend"
    /\ input.x = String("right")
    /\ Len(output) = 2
    /\ output[1] = Object([placement |-> "right", displayMode |-> "table",
                           calcs |-> <<"mean", "max">>])

\* the rule of C20 for the keys of one object: result from before and source
ReplacedOrKept(result, before, source) ==
    /\ DOMAIN result = DOMAIN before \cup DOMAIN source
    /\ \A key \in DOMAIN result :
        IF key \notin DOMAIN source THEN result[key] = before[key]
        ELSE (key \in DOMAIN before /\ isPlainObject(source[key]) /\ isPlainObject(before[key]))
                \/ result[key] = source[key]

\* C20: deepMerge returns the target; for each key of source, where both
\* sides held a plain object the two are merged by the same rule, otherwise
\* target's value is source's (arrays and null replace outright); every key
\* of target that is not in source keeps its value.
C20_DeepMerge ==
    output # <<>> =>
        LET result == output[1]
            before == input.authored
            source == input.source
        IN /\ result = input.target
           /\ ReplacedOrKept(result, before, source)
           /\ \A key \in DOMAIN source :
                (key \in DOMAIN before /\ isPlainObject(source[key])
                        /\ isPlainObject(before[key])) =>
                    /\ isPlainObject(result[key])
                    /\ ReplacedOrKept(result[key].object, before[key].object,
                                      source[key].object)
                    /\ \A k \in DOMAIN source[key].object :
                            result[key].object[k] = source[key].object[k]

\* C20 witness: one call in which a plain object met a plain object and kept
\* a key of its own while an array of it was replaced by a longer one, and
\* another key of target, an object, was replaced by null.
C20_Witness ==
    /\ output # <<>>
    /\ input.authored = [a |-> Obj([x |-> Arr(<<Num(1)>>), y |-> Num(1)]),
                         b |-> Obj([x |-> Num(1)])]
    /\ input.source = [a |-> Obj([x |-> Arr(<<Num(2), Num(3)>>)]), b |-> NullValue]
    /\ output[1] = [a |-> Obj([x |-> Arr(<<Num(2), Num(3)>>), y |-> Num(1)]),
                    b |-> NullValue]

\* the children that become targets, in order
RECURSIVE TargetsOf(_)
TargetsOf(children) ==
    IF children = <<>> THEN <<>>
    ELSE LET child == Head(children)
             isTarget == IF child.typeof = "string" THEN trim(child.value) # ""
                         ELSE child.type = "query" /\ child.props["children"] # ""
         IN (IF isTarget THEN <<child>> ELSE <<>>) \o TargetsOf(Tail(children))

\* whether a child carries a refId of its own
HasRefId(child) == child.typeof = "object" /\ "refId" \in DOMAIN child.props

\* C21: the targets of a panel that lack an explicit refId receive
\* nextRefId(0), nextRefId(1), ... in child order; nextRefId(n) consists of
\* letters A-Z only for every counter n, and is injective.
C21_RefIds ==
    output # <<>> =>
        IF input.function = "nextRefId"
        THEN /\ \A i \in 1..Len(output[1]) :
                    CharCodeA <= output[1][i] /\ output[1][i] <= CharCodeZ
             /\ \A m \in 0..MaxCounter :
                    m # input.counter => nextRefId(m) # output[1]
        ELSE LET from == TargetsOf(input.children)
                 targets == output[1]
             IN /\ Len(targets) = Len(from)
                /\ \A i \in 1..Len(targets) :
                        ~HasRefId(from[i]) =>
                            targets[i].refId =
                                nextRefId(Cardinality({j \in 1..(i - 1) : ~HasRefId(from[j])}))

\* C30: the refIds of the targets of one panel are pairwise distinct, for
\* every mix of string children and Query children with or without a refId.
C30_DistinctRefIds ==
    (output # <<>> /\ input.function = "extractTargets") =>
        \A i \in 1..Len(output[1]) : \A j \in 1..Len(output[1]) :
            i # j => output[1][i].refId # output[1][j].refId

\* the panel this step visited did not fit the line it was on
PanelWrapped ==
    PlacePanel(element'.props, currentX, currentY, rowMaxY,
               rowPaddingLeft, rowPaddingRight).wrap

\* C22: a container's exit sets currentX = savedX + containerWidth,
\* currentY = savedY, both paddings to their values at entry and
\* rowMaxY = max(savedRowMaxY, savedY + the rowMaxY its children left), which
\* is at or below the bottom of every record of the container; a later panel
\* that wraps is placed at or below the bottom of every record of its scope.
C22_ContainerExit ==
    [][/\ ScopeExited("container") =>
            LET f == scopes[Len(scopes)]
            IN /\ currentX' = f.savedCurrentX + f.containerWidth
               /\ currentY' = f.savedCurrentY
               /\ rowPaddingLeft' = f.savedRowPaddingLeft
               /\ rowPaddingRight' = f.savedRowPaddingRight
               /\ rowMaxY' = IF f.savedRowMaxY >= f.savedCurrentY + rowMaxY
                             THEN f.savedRowMaxY ELSE f.savedCurrentY + rowMaxY
               /\ \A i \in (f.panelCountBefore + 1)..Len(panels') :
                        Bottom(panels'[i]) <= rowMaxY'
       /\ (PanelVisited /\ ~OverridesGridPos(element') /\ PanelWrapped) =>
            \A i \in (ScopeStart + 1)..Len(panels) :
                Bottom(panels[i]) <= NewPanel.gridPos.y
    ]_vars

\* C22 witness: a container of width 12 holding a panel of width 6 and height
\* 8 has exited, and the panel of width 18 after it, which does not fit beside
\* the container, is at (0, 8).
C22_Witness ==
    /\ scopes = <<>>
    /\ visited = 3
    /\ Len(panels) = 2
    /\ panels[1].gridPos = [x |-> 0, y |-> 0, w |-> 6, h |-> 8]
    /\ panels[2].gridPos = [x |-> 0, y |-> 8, w |-> 18, h |-> 8]
    /\ currentX = 18
    /\ rowMaxY = 16

\* C23: when a container exits, every record pushed since its entry, rows
\* and the records of nested containers included, is moved by
\* (containerX, containerY), once, and the records pushed before the entry
\* stay; no other step moves a record. A record's final position is so its
\* local one plus the offsets of the containers around it.
C23_Translation ==
    [][IF ScopeExited("container")
       THEN LET f == scopes[Len(scopes)]
            IN /\ Len(panels') = Len(panels)
               /\ \A i \in 1..Len(panels) :
                    IF i <= f.panelCountBefore
                    THEN panels'[i] = panels[i]
                    ELSE panels'[i] =
                            [panels[i] EXCEPT !.gridPos =
                                [x |-> panels[i].gridPos.x + f.savedCurrentX,
                                 y |-> panels[i].gridPos.y + f.savedCurrentY,
                                 w |-> panels[i].gridPos.w,
                                 h |-> panels[i].gridPos.h]]
       ELSE status' # "error" =>
                /\ Len(panels') >= Len(panels)
                /\ \A i \in 1..Len(panels) : panels'[i] = panels[i]
    ]_vars

\* C23 witness: a panel of width 6, then a container of width 12 entered at
\* x = 6 whose panel of width 6, local x = 0, is at x = 6 after the exit.
C23_Witness ==
    /\ scopes = <<>>
    /\ visited = 3
    /\ Len(panels) = 2
    /\ panels[1].gridPos.x = 0
    /\ panels[2].gridPos = [x |-> 6, y |-> 0, w |-> 6, h |-> 8]
    /\ currentX = 18

\* this step entered a container
ContainerEntered == Visited /\ element'.type = "container" /\ status' = "running"

\* C24: the visit of a panel sets currentX to the right edge of the record
\* pushed and rowMaxY to the larger of rowMaxY and the record's bottom edge,
\* and leaves both paddings as they are and, unless the panel wrapped,
\* currentY; currentY changes only at a wrap, at the entry or exit of a row
\* and at the entry or exit of a container.
C24_Advance ==
    [][/\ PanelVisited =>
            /\ currentX' = NewPanel.gridPos.x + NewPanel.gridPos.w
            /\ rowMaxY' = IF rowMaxY >= Bottom(NewPanel) THEN rowMaxY ELSE Bottom(NewPanel)
            /\ rowPaddingLeft' = rowPaddingLeft
            /\ rowPaddingRight' = rowPaddingRight
            /\ ~PanelWrapped => currentY' = currentY
       /\ currentY' # currentY =>
            \/ PanelVisited /\ PanelWrapped
            \/ RowEntered
            \/ ScopeExited("row")
            \/ ContainerEntered
            \/ ScopeExited("container")
    ]_vars

\* C24 witness: two panels of the default size on the first line; the cursor
\* is at the right edge of the second, on the line it was on, below which the
\* line ends at 8.
C24_Witness ==
    /\ scopes = <<>>
    /\ visited = 2
    /\ Len(panels) = 2
    /\ panels[2].gridPos = [x |-> 12, y |-> 0, w |-> 12, h |-> 8]
    /\ currentX = 24
    /\ currentY = 0
    /\ rowMaxY = 8

\* C25: a panel's extend object is merged over the built record before the
\* record is pushed and before the cursor advances: the record pushed has
\* the extend's id and the extend's keys of gridPos in place of the computed
\* ones, the cursor advances from the rectangle pushed, and the panel after
\* it is placed at that rectangle's right edge, or when it wraps at or below
\* its bottom edge.
C25_RawMerge ==
    [][/\ (PanelVisited /\ "extend" \in DOMAIN element'.props) =>
            LET extend == element'.props["extend"]
                computed == PlacePanel(element'.props, currentX, currentY, rowMaxY,
                                       rowPaddingLeft, rowPaddingRight).gridPos
            IN /\ NewPanel.id = IF "id" \in DOMAIN extend THEN extend["id"] ELSE panelId
               /\ \A k \in {"x", "y", "w", "h"} :
                    NewPanel.gridPos[k] =
                        IF "gridPos" \in DOMAIN extend /\ k \in DOMAIN extend["gridPos"]
                        THEN extend["gridPos"][k] ELSE computed[k]
               /\ currentX' = NewPanel.gridPos.x + NewPanel.gridPos.w
               /\ rowMaxY' >= Bottom(NewPanel)
       /\ (visited = 1 /\ element.type \in PanelTypes /\ OverridesGridPos(element)
                /\ PanelVisited /\ ~OverridesGridPos(element')) =>
            IF PanelWrapped
            THEN NewPanel.gridPos.y = Bottom(panels[1])
            ELSE /\ NewPanel.gridPos.y = 0
                 /\ NewPanel.gridPos.x = panels[1].gridPos.x + panels[1].gridPos.w
                                            + OrElse(element'.props, "marginLeft", 0)
    ]_vars

\* C25 witness: a panel whose extend sets x = 3 and h = 2 of gridPos is
\* pushed at (3, 0) with height 2, and the panel of the default size after it,
\* which does not fit beside it, is at y = 2.
C25_Witness ==
    /\ scopes = <<>>
    /\ visited = 2
    /\ Len(panels) = 2
    /\ panels[1].gridPos = [x |-> 3, y |-> 0, w |-> 12, h |-> 2]
    /\ panels[2].gridPos = [x |-> 0, y |-> 2, w |-> 12, h |-> 8]

\* two rectangles of the grid whose interiors have no cell in common
Disjoint(a, b) ==
    \/ a.x + a.w <= b.x
    \/ b.x + b.w <= a.x
    \/ a.y + a.h <= b.y
    \/ b.y + b.h <= a.y

\* C26: in the document returned for a tree of rows, containers and panels
\* placed by the cursor, any two distinct records have rectangles with
\* disjoint interiors.
C26_NoOverlap ==
    status = "done" =>
        \A i, j \in 1..Len(dashboard.panels) :
            i < j => Disjoint(dashboard.panels[i].gridPos, dashboard.panels[j].gridPos)

\* the node being processed is a child of a row: the innermost open scope
ChildOfRow == scopes # <<>> /\ scopes[Len(scopes)].kind = "row"

\* C27: a panel that is a child of a row with paddings (pl, pr), with no
\* margin and a width of at most 24 - pl - pr, is placed with pl <= x and
\* x + w <= 24 - pr, wherever it stands among the children of the row.
C27_RowPadding ==
    [][(PanelVisited /\ ChildOfRow
            /\ NewPanel.gridPos.w <= (GridWidth - PaddedRow.paddingLeft) - PaddedRow.paddingRight) =>
            /\ PaddedRow.paddingLeft <= NewPanel.gridPos.x
            /\ NewPanel.gridPos.x + NewPanel.gridPos.w <= GridWidth - PaddedRow.paddingRight
    ]_vars

\* C28: when a row, a container or a defaults scope has been processed to its
\* end without error, the defaults stack is the one the node was entered with:
\* the root layers and the layers of the scopes that were open then; and when
\* the pass returns, the stack has its initial depth, 0 or 1, and both
\* paddings are 0.
C28_Balanced ==
    [][/\ (ScopeExited("row") \/ ScopeExited("container") \/ ScopeExited("defaults")) =>
            /\ defaultsStack' = MergedDefaults(renderOptions, dashboardProps) \o ScopeLayers'
            /\ (~ScopeExited("defaults")) => defaultsStack' = defaultsStack
       /\ (status = "running" /\ status' = "done") =>
            /\ defaultsStack' = MergedDefaults(renderOptions, dashboardProps)
            /\ Len(defaultsStack') \in {0, 1}
            /\ rowPaddingLeft' = 0
            /\ rowPaddingRight' = 0
    ]_vars

\* C28 witness: a pass over a row with padding, a container and a defaults
\* scope, each left again, has returned with the one root layer on the stack.
C28_Witness ==
    /\ status = "done"
    /\ visited = 3
    /\ element.type = "defaults"
    /\ Len(panels) = 1
    /\ panels[1].type = "row"
    /\ currentX = 12
    /\ Len(defaultsStack) = 1
    /\ rowPaddingLeft = 0
    /\ rowPaddingRight = 0

\* the records emitted so far in the current scope: since the entry of the
\* innermost open container, all of them outside containers
ScopeRecords == {panels[i] : i \in (ScopeStart + 1)..Len(panels)}

\* the cursor is not below the line reached, and no record of the current
\* scope ends below it
CursorAboveRowMaxY ==
    status # "error" =>
        /\ currentY <= rowMaxY
        /\ \A p \in ScopeRecords : Bottom(p) <= rowMaxY

\* C29: in a pass over rows, containers and panels placed by the cursor,
\* currentY <= rowMaxY and every record of the current scope has
\* y + h <= rowMaxY in every state; a wrap does not move the cursor upward and
\* places the panel at or below the bottom of every earlier record of the scope.
C29_RowMaxY ==
    [][/\ CursorAboveRowMaxY
       /\ CursorAboveRowMaxY'
       /\ (PanelVisited /\ PanelWrapped) =>
            /\ currentY' >= currentY
            /\ \A p \in ScopeRecords : NewPanel.gridPos.y >= Bottom(p)
    ]_vars

\* C29 witness: a panel of height 8 and a panel of height 4 stand side by
\* side, and the wide panel after them has wrapped to y = 8, below both.
C29_Witness ==
    /\ status = "running"
    /\ scopes = <<>>
    /\ Len(panels) = 3
    /\ Bottom(panels[1]) = 8
    /\ Bottom(panels[2]) = 4
    /\ panels[3].gridPos = [x |-> 0, y |-> 8, w |-> 18, h |-> 8]
    /\ currentY = 8
    /\ rowMaxY = 16

====
